---- MODULE Spec2Model ----
(***************************************************************************)
(* The MCP request dispatcher of teamcity-mcp (internal/mcp/handler.go)    *)
(* and the TeamCity client operations it calls (internal/teamcity).        *)
(*                                                                         *)
(* A transport hands HandleRequest one raw message; HandleRequest decodes  *)
(* the JSON-RPC envelope, routes on the method and returns a reply value   *)
(* or nil.  The model keeps, for the message being handled, the reply,     *)
(* the route taken, the upstream HTTP requests issued and the metrics      *)
(* recorded.                                                               *)
(***************************************************************************)
EXTENDS Integers, Sequences, FiniteSets, TLC

VARIABLES
    pc,        \* "idle": waiting for a message; "received": a message is in
               \* hand; "done": HandleRequest has returned
    msg,       \* the raw message handed to HandleRequest
    reply,     \* what HandleRequest returned: a response map, or NoReply (nil)
    routed,    \* the case of the method switch that was taken ("none" before it)
    calls,     \* upstream HTTP requests issued while handling msg, in order
    recorded,  \* metrics recorded while handling msg, in order
    answers,   \* what the upstream held ready while msg was handled: the
               \* answers to the requests in order, and the build
               \* configuration details
    cache,     \* Cache.data: for every key the item stored, or NoItem
    mu,        \* Cache.mu: the writer holding it, the readers holding it and
               \* the callers of Lock that are waiting for it
    now,       \* the clock (time.Now)
    proc,      \* the callers of the cache and its cleanup goroutine: for each
               \* the call in progress and how far it has come
    log,       \* the build log FetchBuildLog has read and the report it makes
               \* of it
    detail,    \* the build configuration matchesDetailedCriteria is given, the
               \* request, and its verdict
    server,    \* the Server as Start runs it: the transport, the configured
               \* secret, whether its context is cancelled and whether
               \* Start has returned
    conn,      \* the HTTP exchange or WebSocket connection in progress
    stdio,     \* the stdio loop: where it stands, what stdin holds, and the
               \* decoder's retained error
    written,   \* for the message a transport handled last (none yet when an
               \* HTTP exchange begins): what the dispatcher returned and
               \* what the transport wrote back
    lastSet    \* for every key, the value and time of the most recent Set not
               \* followed by a Delete of the key or a Clear (kept for the
               \* statement of the properties; the cache does not read it)

dispatcherVars == <<pc, msg, reply, routed, calls, recorded, answers>>
cacheVars == <<cache, mu, now, proc, lastSet>>
transportVars == <<server, conn, stdio, written>>
vars == <<pc, msg, reply, routed, calls, recorded, answers, cache, mu, now, proc, lastSet,
          log, detail, server, conn, stdio, written>>

----------------------------------------------------------------------------
(* Bounds of the model.                                                    *)

\* Number of entities an upstream collection answer carries at most.
MaxEntities == 2

\* The clock runs from 0 to MaxTime.
MaxTime == 2

\* Number of lines a build log has at most.
MaxLogLines == 3

\* Number of parameters, and of steps, a build configuration has at most.
MaxDetails == 2

\* Number of messages a client writes to stdin at most.
MaxInput == 2

----------------------------------------------------------------------------
(* JSON values as they appear in a message.  "absent" is a key that is not *)
(* in its object.                                                          *)

JAbsent == [t |-> "absent", s |-> "", n |-> 0]
JNull == [t |-> "null", s |-> "", n |-> 0]
JStr(s) == [t |-> "string", s |-> s, n |-> 0]
JNum(n) == [t |-> "number", s |-> "", n |-> n]
JBool(b) == [t |-> "bool", s |-> "", n |-> IF b THEN 1 ELSE 0]
JArr(items) == [t |-> "array", s |-> "", n |-> 0, items |-> items]
JObj(fields) == [t |-> "object", s |-> "", n |-> 0, fields |-> fields]

\* The member k of a JSON value, JAbsent when v is no object or has no k.
Member(v, k) ==
    IF v.t = "object" /\ k \in DOMAIN v.fields THEN v.fields[k] ELSE JAbsent

\* The Go nil interface value.
Nil == [t |-> "nil", s |-> "", n |-> 0]

\* HandleRequest returning (nil, nil): no reply.
NoReply == [nil |-> TRUE]

\* The Go nil error, and an error as the pieces of its message.
NoError == <<>>

----------------------------------------------------------------------------
(* encoding/json, as far as the handler relies on it.                      *)

\* json.Unmarshal into a Go string field: an absent key and null leave the
\* field alone, a JSON string sets it, any other value is a type error.
StringFieldErr(v) == v.t \notin {"absent", "null", "string"}
StringField(v, default) == IF v.t = "string" THEN v.s ELSE default

\* json.Unmarshal into an interface{} field: absent and null give nil, any
\* other JSON value gives that value.
InterfaceField(v) == IF v.t \in {"absent", "null"} THEN Nil ELSE v

\* json.Unmarshal of raw bytes into a struct: no bytes at all and every JSON
\* value other than an object or null is an error; null decodes to the zero
\* struct without error.
StructErr(raw) == raw.t \notin {"null", "object"}

\* len(raw) > 0 for a json.RawMessage field: an absent key leaves it nil,
\* null is stored as the four bytes "null".
RawLen(raw) == IF raw.t = "absent" THEN 0 ELSE 1

----------------------------------------------------------------------------
(* JSON-RPC error codes and the response constructors.                     *)

ParseErrorCode == -32700
InvalidRequestCode == -32600
MethodNotFoundCode == -32601
InvalidParamsCode == -32602
InternalErrorCode == -32603

successResponse(id, result) ==
    [jsonrpc |-> "2.0", id |-> id, result |-> result]

\* data is an error's message, or NoData for a nil data argument.
NoData == <<>>

\* errorResponse as it would be if it filled in a null result as well.
errorResponseWithResult(id, code, message, data) ==
    [jsonrpc |-> "2.0", id |-> id, result |-> Nil,
     error |-> IF data # NoData
               THEN [code |-> code, message |-> message, data |-> data]
               ELSE [code |-> code, message |-> message]]

errorResponse(id, code, message, data) ==
    [jsonrpc |-> "2.0", id |-> id,
     error |-> IF data # NoData
               THEN [code |-> code, message |-> message, data |-> data]
               ELSE [code |-> code, message |-> message]]

IsReply(r) == r # NoReply
IsError(r) == IsReply(r) /\ "error" \in DOMAIN r
IsSuccess(r) == IsReply(r) /\ "result" \in DOMAIN r

----------------------------------------------------------------------------
(* The upstream TeamCity server.  Every HTTP request the client issues is  *)
(* answered by one of UpstreamResponses, chosen by the environment.        *)

\* status 0: the HTTP round trip itself failed (connection refused, timeout,
\* cancelled context).  A 200 answer carries either JSON with `count`
\* entities or bytes that are not JSON.
TransportFailure == [status |-> 0, body |-> "none", count |-> 0]
UpstreamResponses ==
    {TransportFailure}
    \cup {[status |-> 200, body |-> "json", count |-> k] : k \in 0..MaxEntities}
    \cup {[status |-> 200, body |-> "not json", count |-> 0]}
    \cup {[status |-> st, body |-> "error page", count |-> 0] : st \in {404, 429}}

\* One upstream HTTP request: method, endpoint (the pieces of the path under
\* /app/rest) and whether a body was sent.
Request(method, endpoint, hasBody) ==
    [method |-> method, endpoint |-> endpoint, hasBody |-> hasBody]

\* Client.makeRequest: the request goes out once; a failed round trip and a
\* status >= 400 are errors, anything else returns the body.
makeRequest(resp) ==
    IF resp.status = 0
    THEN [err |-> <<"making request: ", "round trip failed">>, body |-> resp]
    ELSE IF resp.status >= 400
    THEN [err |-> <<"API error ", ToString(resp.status), ": ", resp.body>>,
          body |-> resp]
    ELSE [err |-> NoError, body |-> resp]

\* json.Unmarshal of an upstream body into a response struct.
BodyParses(resp) == resp.body = "json"

\* metrics.RecordTeamCityRequest(endpoint, status, duration)
RecordTeamCityRequest(endpoint, status) ==
    [sink |-> "teamcity", name |-> endpoint, status |-> status]

\* metrics.RecordMCPRequest(method, status, duration)
RecordMCPRequest(method, status) ==
    [sink |-> "mcp", name |-> method, status |-> status]

\* What a client operation hands back: its error (NoError for nil), its
\* value, the upstream requests it issued and the metrics it recorded.
Outcome(err, value, reqs, metrics) ==
    [err |-> err, value |-> value, calls |-> reqs, metrics |-> metrics]

\* A resource descriptor {uri, name, description, mimeType}.
Descriptor(uri, name, description) ==
    [uri |-> uri, name |-> name, description |-> description,
     mimeType |-> "application/json"]

\* The common body of ListProjects / ListBuildTypes / ListBuilds / ListAgents:
\* one GET on the collection, one descriptor per entity of the answer.
listCollection(metric, endpoint, what, uriPrefix, resp) ==
    LET r == makeRequest(resp)
        req == <<Request("GET", endpoint, FALSE)>>
        m == <<RecordTeamCityRequest(metric, "success")>>
    IN  IF r.err # NoError
        THEN Outcome(<<"failed to get ", what, ": ">> \o r.err, <<>>, req, m)
        ELSE IF ~BodyParses(r.body)
        THEN Outcome(<<"failed to parse ", what, " response: ", "invalid JSON">>,
                     <<>>, req, m)
        ELSE Outcome(NoError,
                     [i \in 1..r.body.count |->
                        Descriptor(<<uriPrefix, ToString(i)>>,
                                   <<what, ToString(i)>>, <<what, ToString(i)>>)],
                     req, m)

ListProjects(resp) ==
    listCollection("list_projects", <<"/projects">>, "projects",
                   "teamcity://projects/", resp)

ListBuildTypes(resp) ==
    listCollection("list_build_types", <<"/buildTypes">>, "build types",
                   "teamcity://buildTypes/", resp)

ListBuilds(resp) ==
    listCollection("list_builds", <<"/builds?locator=count:100">>, "builds",
                   "teamcity://builds/", resp)

ListAgents(resp) ==
    listCollection("list_agents", <<"/agents">>, "agents",
                   "teamcity://agents/", resp)

\* Client.GetResource: records its metric and returns a fixed-shape value
\* for whatever uri it is given; it issues no upstream request.
GetResource(uri) ==
    Outcome(NoError,
            [uri |-> uri, type |-> "resource",
             content |-> <<"Resource content for ", uri>>],
            <<>>, <<RecordTeamCityRequest("get_resource", "success")>>)

----------------------------------------------------------------------------
(* Resources (handler.go).                                                 *)

ResourceCatalogURIs ==
    <<"teamcity://projects", "teamcity://buildTypes", "teamcity://builds",
      "teamcity://agents", "teamcity://runtime">>

\* The static list listResources returns for an empty uri.
ResourceCatalog ==
    [i \in 1..Len(ResourceCatalogURIs) |->
        Descriptor(<<ResourceCatalogURIs[i]>>, <<"catalog">>, <<"catalog">>)]

\* Handler.listRuntimeInfo
listRuntimeInfo ==
    Outcome(NoError,
            <<Descriptor(<<"teamcity://runtime">>, <<"catalog">>, <<"catalog">>)>>,
            <<>>, <<>>)

\* Handler.getRuntimeInfo: the current time, read from the clock.
getRuntimeInfo ==
    Outcome(NoError, [type |-> "runtime-info", currentTime |-> "now"], <<>>, <<>>)

\* listResources as it would be if an empty uri fetched the projects instead
\* of returning the static list.
listResourcesFetching(uri, resp) ==
    IF uri = "" \/ uri = "teamcity://projects" THEN ListProjects(resp)
    ELSE IF uri = "teamcity://buildTypes" THEN ListBuildTypes(resp)
    ELSE IF uri = "teamcity://builds" THEN ListBuilds(resp)
    ELSE IF uri = "teamcity://agents" THEN ListAgents(resp)
    ELSE IF uri = "teamcity://runtime" THEN listRuntimeInfo
    ELSE Outcome(<<"unsupported resource URI: ", uri>>, <<>>, <<>>, <<>>)

\* Handler.listResources
listResources(uri, resp) ==
    IF uri = "" THEN Outcome(NoError, ResourceCatalog, <<>>, <<>>)
    ELSE IF uri = "teamcity://projects" THEN ListProjects(resp)
    ELSE IF uri = "teamcity://buildTypes" THEN ListBuildTypes(resp)
    ELSE IF uri = "teamcity://builds" THEN ListBuilds(resp)
    ELSE IF uri = "teamcity://agents" THEN ListAgents(resp)
    ELSE IF uri = "teamcity://runtime" THEN listRuntimeInfo
    ELSE Outcome(<<"unsupported resource URI: ", uri>>, <<>>, <<>>, <<>>)

\* Handler.readResource
readResource(uri) ==
    IF uri = "teamcity://runtime" THEN getRuntimeInfo ELSE GetResource(uri)

\* What a handler hands back to HandleRequest: the reply and what the
\* operation under it did.
Handled(rep, out) == [reply |-> rep, calls |-> out.calls, metrics |-> out.metrics]
HandledLocally(rep) == [reply |-> rep, calls |-> <<>>, metrics |-> <<>>]

\* Handler.handleResourcesList
handleResourcesList(id, params, resp) ==
    IF /\ RawLen(params) > 0
       /\ params.t # "null"
       /\ (StructErr(params) \/ StringFieldErr(Member(params, "uri")))
    THEN HandledLocally(errorResponse(id, InvalidParamsCode, "Invalid params", NoData))
    ELSE LET uri == IF RawLen(params) > 0 /\ params.t # "null"
                    THEN StringField(Member(params, "uri"), "")
                    ELSE ""
             out == listResources(uri, resp)
         IN  IF out.err # NoError
             THEN Handled(errorResponse(id, InternalErrorCode, "Internal error",
                                        out.err), out)
             ELSE Handled(successResponse(id, [resources |-> out.value]), out)

\* Handler.handleResourcesRead
handleResourcesRead(id, params) ==
    IF StructErr(params) \/ StringFieldErr(Member(params, "uri"))
    THEN HandledLocally(errorResponse(id, InvalidParamsCode, "Invalid params", NoData))
    ELSE LET out == readResource(StringField(Member(params, "uri"), ""))
         IN  IF out.err # NoError
             THEN Handled(errorResponse(id, InternalErrorCode, "Internal error",
                                        out.err), out)
             ELSE Handled(successResponse(id, [contents |-> <<out.value>>]), out)

----------------------------------------------------------------------------
(* Decoding of tool arguments (encoding/json into the request structs) and *)
(* the string functions the client applies to them.                        *)

\* bool and *bool fields
BoolFieldErr(v) == v.t \notin {"absent", "null", "bool"}
BoolField(v) == v.t = "bool" /\ v.n = 1
BoolFieldSet(v) == v.t = "bool"

\* int and *int fields
IntFieldErr(v) == v.t \notin {"absent", "null", "number"}
IntField(v) == IF v.t = "number" THEN v.n ELSE 0

\* []string fields (the arrays of the model hold strings only)
StringsFieldErr(v) == v.t \notin {"absent", "null", "array"}
StringsField(v) == IF v.t = "array" THEN v.items ELSE <<>>

\* map[string]string fields
MapFieldErr(v) == v.t \notin {"absent", "null", "object"}

\* json.Unmarshal(args, &req) fails: args is no object (or null), or one of
\* its members has the wrong JSON type for its field.
ArgsErr(args, strs, bools, ints, lists, maps) ==
    \/ StructErr(args)
    \/ \E k \in strs : StringFieldErr(Member(args, k))
    \/ \E k \in bools : BoolFieldErr(Member(args, k))
    \/ \E k \in ints : IntFieldErr(Member(args, k))
    \/ \E k \in lists : StringsFieldErr(Member(args, k))
    \/ \E k \in maps : MapFieldErr(Member(args, k))

Str(args, k) == StringField(Member(args, k), "")

InvalidArguments == <<"invalid arguments: ", "json: cannot unmarshal">>

\* The characters of the strings the model passes as a buildId or as a
\* detailed filter.
Chars(s) ==
    CASE s = "" -> <<>>
      [] s = "a" -> <<"a">>
      [] s = "A" -> <<"A">>
      [] s = "B" -> <<"B">>
      [] s = "gradle" -> <<"g", "r", "a", "d", "l", "e">>
      [] s = "42" -> <<"4", "2">>
      [] s = "7" -> <<"7">>
      [] s = "-7" -> <<"-", "7">>
      [] s = "abc" -> <<"a", "b", "c">>
      [] s = "4x" -> <<"4", "x">>

Digits == <<"0", "1", "2", "3", "4", "5", "6", "7", "8", "9">>
IsDigit(c) == \E d \in 1..Len(Digits) : Digits[d] = c
DigitValue(c) == (CHOOSE d \in 1..Len(Digits) : Digits[d] = c) - 1

RECURSIVE DecimalValue(_, _)
DecimalValue(cs, acc) ==
    IF cs = <<>> THEN acc
    ELSE DecimalValue(Tail(cs), acc * Len(Digits) + DigitValue(Head(cs)))

\* Atoi as it would be if it read every string that is no number as 0.
AtoiLenient(s) ==
    LET cs == Chars(s)
        signed == cs # <<>> /\ Head(cs) \in {"+", "-"}
        ds == IF signed THEN Tail(cs) ELSE cs
    IN  IF ds = <<>> \/ \E i \in 1..Len(ds) : ~IsDigit(ds[i])
        THEN [ok |-> TRUE, n |-> 0]
        ELSE [ok |-> TRUE,
              n |-> IF signed /\ Head(cs) = "-"
                    THEN 0 - DecimalValue(ds, 0) ELSE DecimalValue(ds, 0)]

\* strconv.Atoi: an optional sign followed by at least one decimal digit and
\* nothing else (the strings of the model are too short to overflow an int).
Atoi(s) ==
    LET cs == Chars(s)
        signed == cs # <<>> /\ Head(cs) \in {"+", "-"}
        ds == IF signed THEN Tail(cs) ELSE cs
    IN  IF ds = <<>> \/ \E i \in 1..Len(ds) : ~IsDigit(ds[i])
        THEN [ok |-> FALSE, n |-> 0]
        ELSE [ok |-> TRUE,
              n |-> IF signed /\ Head(cs) = "-"
                    THEN 0 - DecimalValue(ds, 0) ELSE DecimalValue(ds, 0)]

\* strings.ToLower on the severity names the model uses.
ToLower(s) ==
    CASE s = "ERROR" -> "error"
      [] s = "Warning" -> "warning"
      [] OTHER -> s

\* A request body (NoBody for nil).
NoBody == [none |-> TRUE]

RequestWithBody(method, endpoint, body) ==
    [method |-> method, endpoint |-> endpoint, hasBody |-> TRUE, body |-> body]

\* GET /builds/id:{id}, shared by CancelBuild, PinBuild and SetBuildTag.
BuildEndpoint(buildID) == <<"/builds/id:", ToString(buildID)>>

----------------------------------------------------------------------------
(* Tools of the TeamCity client.  `up` is the sequence of answers the      *)
(* upstream gives to the requests of the operation, in order.              *)

\* TriggerBuild as it would be if a request answered 429 were sent again.
TriggerBuildRetrying(args, up) ==
    IF ArgsErr(args, {"buildTypeId", "branchName", "comment"}, {}, {}, {},
               {"properties"})
    THEN Outcome(InvalidArguments, <<>>, <<>>, <<>>)
    ELSE
    LET m == <<RecordTeamCityRequest("trigger_build", "success")>>
        body == [buildTypeId |-> Str(args, "buildTypeId"),
                 branchName |-> Str(args, "branchName"),
                 comment |-> Str(args, "comment"),
                 properties |-> Member(args, "properties").t = "object"]
        req == <<RequestWithBody("POST", <<"/buildQueue">>, body)>>
        r == makeRequest(up[1])
    IN  IF up[1].status = 429
        THEN Outcome(<<"failed to trigger build: ">> \o r.err, <<>>, req \o req, m)
        ELSE IF r.err # NoError
        THEN Outcome(<<"failed to trigger build: ">> \o r.err, <<>>, req, m)
        ELSE IF ~BodyParses(r.body)
        THEN Outcome(<<"failed to parse trigger response: ", "invalid JSON">>,
                     <<>>, req, m)
        ELSE Outcome(NoError, <<"Build #", "N", " queued successfully">>, req, m)

\* Client.TriggerBuild
TriggerBuild(args, up) ==
    IF ArgsErr(args, {"buildTypeId", "branchName", "comment"}, {}, {}, {},
               {"properties"})
    THEN Outcome(InvalidArguments, <<>>, <<>>, <<>>)
    ELSE
    LET m == <<RecordTeamCityRequest("trigger_build", "success")>>
        body == [buildTypeId |-> Str(args, "buildTypeId"),
                 branchName |-> Str(args, "branchName"),
                 comment |-> Str(args, "comment"),
                 properties |-> Member(args, "properties").t = "object"]
        req == <<RequestWithBody("POST", <<"/buildQueue">>, body)>>
        r == makeRequest(up[1])
    IN  IF r.err # NoError
        THEN Outcome(<<"failed to trigger build: ">> \o r.err, <<>>, req, m)
        ELSE IF ~BodyParses(r.body)
        THEN Outcome(<<"failed to parse trigger response: ", "invalid JSON">>,
                     <<>>, req, m)
        ELSE Outcome(NoError, <<"Build #", "N", " queued successfully">>, req, m)

\* CancelBuild as it would be if a build that does not parse were cancelled
\* all the same.
CancelBuildUnparsed(args, up) ==
    IF ArgsErr(args, {"buildId", "comment"}, {}, {}, {}, {})
    THEN Outcome(InvalidArguments, <<>>, <<>>, <<>>)
    ELSE
    LET m == <<RecordTeamCityRequest("cancel_build", "success")>>
        buildID == Atoi(Str(args, "buildId"))
        get == Request("GET", BuildEndpoint(buildID.n), FALSE)
        post == RequestWithBody("POST",
                                BuildEndpoint(buildID.n) \o <<"/cancelRequest">>,
                                [comment |-> Str(args, "comment")])
        r1 == makeRequest(up[1])
        r2 == makeRequest(up[2])
    IN  IF ~buildID.ok
        THEN Outcome(<<"invalid build ID: ", "strconv.Atoi: invalid syntax">>,
                     <<>>, <<>>, m)
        ELSE IF r1.err # NoError
        THEN Outcome(<<"build not found: ">> \o r1.err, <<>>, <<get>>, m)
        ELSE IF r2.err # NoError
        THEN Outcome(<<"failed to cancel build: ">> \o r2.err, <<>>, <<get, post>>, m)
        ELSE Outcome(NoError, <<"Build #", "N", " cancelled successfully">>,
                     <<get, post>>, m)

\* Client.CancelBuild
CancelBuild(args, up) ==
    IF ArgsErr(args, {"buildId", "comment"}, {}, {}, {}, {})
    THEN Outcome(InvalidArguments, <<>>, <<>>, <<>>)
    ELSE
    LET m == <<RecordTeamCityRequest("cancel_build", "success")>>
        buildID == Atoi(Str(args, "buildId"))
        get == Request("GET", BuildEndpoint(buildID.n), FALSE)
        post == RequestWithBody("POST",
                                BuildEndpoint(buildID.n) \o <<"/cancelRequest">>,
                                [comment |-> Str(args, "comment")])
        r1 == makeRequest(up[1])
        r2 == makeRequest(up[2])
    IN  IF ~buildID.ok
        THEN Outcome(<<"invalid build ID: ", "strconv.Atoi: invalid syntax">>,
                     <<>>, <<>>, m)
        ELSE IF r1.err # NoError
        THEN Outcome(<<"build not found: ">> \o r1.err, <<>>, <<get>>, m)
        ELSE IF ~BodyParses(r1.body)
        THEN Outcome(<<"failed to parse build: ", "invalid JSON">>, <<>>, <<get>>, m)
        ELSE IF r2.err # NoError
        THEN Outcome(<<"failed to cancel build: ">> \o r2.err, <<>>, <<get, post>>, m)
        ELSE Outcome(NoError, <<"Build #", "N", " cancelled successfully">>,
                     <<get, post>>, m)

\* Client.PinBuild
PinBuild(args, up) ==
    IF ArgsErr(args, {"buildId", "comment"}, {"pin"}, {}, {}, {})
    THEN Outcome(InvalidArguments, <<>>, <<>>, <<>>)
    ELSE
    LET m == <<RecordTeamCityRequest("pin_build", "success")>>
        buildID == Atoi(Str(args, "buildId"))
        pin == BoolField(Member(args, "pin"))
        get == Request("GET", BuildEndpoint(buildID.n), FALSE)
        put == RequestWithBody("PUT", BuildEndpoint(buildID.n) \o <<"/pin">>,
                               [comment |-> Str(args, "comment")])
        del == Request("DELETE", BuildEndpoint(buildID.n) \o <<"/pin">>, FALSE)
        r1 == makeRequest(up[1])
        r2 == makeRequest(up[2])
    IN  IF ~buildID.ok
        THEN Outcome(<<"invalid build ID: ", "strconv.Atoi: invalid syntax">>,
                     <<>>, <<>>, m)
        ELSE IF r1.err # NoError
        THEN Outcome(<<"build not found: ">> \o r1.err, <<>>, <<get>>, m)
        ELSE IF ~BodyParses(r1.body)
        THEN Outcome(<<"failed to parse build: ", "invalid JSON">>, <<>>, <<get>>, m)
        ELSE IF pin
        THEN IF r2.err # NoError
             THEN Outcome(<<"failed to pin build: ">> \o r2.err, <<>>, <<get, put>>, m)
             ELSE Outcome(NoError, <<"Build #", "N", " pinned successfully">>,
                          <<get, put>>, m)
        ELSE IF r2.err # NoError
             THEN Outcome(<<"failed to unpin build: ">> \o r2.err, <<>>,
                          <<get, del>>, m)
             ELSE Outcome(NoError, <<"Build #", "N", " unpinned successfully">>,
                          <<get, del>>, m)

\* tagRequests as it would be if the tags to remove were taken last to first.
tagRequestsReversed(buildID, tags, removeTags) ==
    [i \in 1..Len(tags) |->
        [what |-> "add", tag |-> tags[i],
         req |-> RequestWithBody("POST", BuildEndpoint(buildID) \o <<"/tags">>,
                                 [name |-> tags[i]])]]
    \o
    [i \in 1..Len(removeTags) |->
        [what |-> "remove", tag |-> removeTags[Len(removeTags) + 1 - i],
         req |-> Request("DELETE",
                         BuildEndpoint(buildID)
                            \o <<"/tags/", removeTags[Len(removeTags) + 1 - i]>>,
                         FALSE)]]

\* The per-tag requests of SetBuildTag, in the order of its two loops: one
\* POST per tag to add, then one DELETE per tag to remove.
tagRequests(buildID, tags, removeTags) ==
    [i \in 1..Len(tags) |->
        [what |-> "add", tag |-> tags[i],
         req |-> RequestWithBody("POST", BuildEndpoint(buildID) \o <<"/tags">>,
                                 [name |-> tags[i]])]]
    \o
    [i \in 1..Len(removeTags) |->
        [what |-> "remove", tag |-> removeTags[i],
         req |-> Request("DELETE",
                         BuildEndpoint(buildID) \o <<"/tags/", removeTags[i]>>,
                         FALSE)]]

\* SetBuildTag as it would be if a failed tag request did not end the loops:
\* every tag request is issued, the first failure is reported at the end.
SetBuildTagContinuing(args, up) ==
    IF ArgsErr(args, {"buildId"}, {}, {}, {"tags", "removeTags"}, {})
    THEN Outcome(InvalidArguments, <<>>, <<>>, <<>>)
    ELSE
    LET m == <<RecordTeamCityRequest("set_build_tag", "success")>>
        buildID == Atoi(Str(args, "buildId"))
        get == Request("GET", BuildEndpoint(buildID.n), FALSE)
        r1 == makeRequest(up[1])
        steps == tagRequests(buildID.n, StringsField(Member(args, "tags")),
                             StringsField(Member(args, "removeTags")))
        failed == {k \in 1..Len(steps) : makeRequest(up[1 + k]).err # NoError}
        first == CHOOSE k \in failed : \A j \in failed : k <= j
        all == <<get>> \o [k \in 1..Len(steps) |-> steps[k].req]
    IN  IF ~buildID.ok
        THEN Outcome(<<"invalid build ID: ", "strconv.Atoi: invalid syntax">>,
                     <<>>, <<>>, m)
        ELSE IF r1.err # NoError
        THEN Outcome(<<"build not found: ">> \o r1.err, <<>>, <<get>>, m)
        ELSE IF ~BodyParses(r1.body)
        THEN Outcome(<<"failed to parse build: ", "invalid JSON">>, <<>>, <<get>>, m)
        ELSE IF failed # {}
        THEN Outcome(<<"failed to ", steps[first].what, " tag ", steps[first].tag,
                       ": ">> \o makeRequest(up[1 + first]).err,
                     <<>>, all, m)
        ELSE Outcome(NoError, <<"Tags updated for build #", "N">>, all, m)

\* Client.SetBuildTag
SetBuildTag(args, up) ==
    IF ArgsErr(args, {"buildId"}, {}, {}, {"tags", "removeTags"}, {})
    THEN Outcome(InvalidArguments, <<>>, <<>>, <<>>)
    ELSE
    LET m == <<RecordTeamCityRequest("set_build_tag", "success")>>
        buildID == Atoi(Str(args, "buildId"))
        get == Request("GET", BuildEndpoint(buildID.n), FALSE)
        r1 == makeRequest(up[1])
        steps == tagRequests(buildID.n, StringsField(Member(args, "tags")),
                             StringsField(Member(args, "removeTags")))
        \* the k-th tag request is answered by up[1 + k]
        failed == {k \in 1..Len(steps) : makeRequest(up[1 + k]).err # NoError}
        first == CHOOSE k \in failed : \A j \in failed : k <= j
    IN  IF ~buildID.ok
        THEN Outcome(<<"invalid build ID: ", "strconv.Atoi: invalid syntax">>,
                     <<>>, <<>>, m)
        ELSE IF r1.err # NoError
        THEN Outcome(<<"build not found: ">> \o r1.err, <<>>, <<get>>, m)
        ELSE IF ~BodyParses(r1.body)
        THEN Outcome(<<"failed to parse build: ", "invalid JSON">>, <<>>, <<get>>, m)
        ELSE IF failed # {}
        THEN Outcome(<<"failed to ", steps[first].what, " tag ", steps[first].tag,
                       ": ">> \o makeRequest(up[1 + first]).err,
                     <<>>,
                     <<get>> \o [k \in 1..first |-> steps[k].req], m)
        ELSE Outcome(NoError, <<"Tags updated for build #", "N">>,
                     <<get>> \o [k \in 1..Len(steps) |-> steps[k].req], m)

\* Client.DownloadArtifact: no upstream request; the text names what it was asked for.
DownloadArtifact(args) ==
    IF ArgsErr(args, {"buildId", "artifactPath"}, {}, {}, {}, {})
    THEN Outcome(InvalidArguments, <<>>, <<>>, <<>>)
    ELSE Outcome(NoError,
                 <<"Artifact ", Str(args, "artifactPath"), " from build ",
                   Str(args, "buildId"), " download initiated">>,
                 <<>>, <<RecordTeamCityRequest("download_artifact", "success")>>)

\* The clauses SearchBuilds appends to its locator, in the order of the code.
searchBuildsParams(args) ==
    LET strClause(k, key) ==
            IF Str(args, k) # "" THEN <<<<key, Str(args, k)>>>> ELSE <<>>
        boolClause(k, key) ==
            IF BoolFieldSet(Member(args, k))
            THEN <<<<key, IF BoolField(Member(args, k)) THEN "true" ELSE "false">>>>
            ELSE <<>>
        tags == StringsField(Member(args, "tags"))
    IN  strClause("buildTypeId", "buildType:") \o strClause("status", "status:")
        \o strClause("state", "state:") \o strClause("branch", "branch:")
        \o strClause("agent", "agent:") \o strClause("user", "user:")
        \o strClause("sinceBuild", "sinceBuild:")
        \o strClause("sinceDate", "sinceDate:")
        \o strClause("untilDate", "untilDate:")
        \o boolClause("personal", "personal:") \o boolClause("pinned", "pinned:")
        \o [i \in 1..Len(tags) |-> <<"tag:", tags[i]>>]

DefaultCount == 100

\* "count:N" followed by ",clause" for every clause.
RECURSIVE joinClauses(_)
joinClauses(params) ==
    IF params = <<>> THEN <<>>
    ELSE <<",">> \o Head(params) \o joinClauses(Tail(params))

\* locator as it would be without the default for a zero count.
locatorWithoutDefault(count, params) ==
    <<"count:", ToString(count)>> \o joinClauses(params)

locator(count, params) ==
    <<"count:", ToString(IF count = 0 THEN DefaultCount ELSE count)>>
    \o joinClauses(params)

\* Client.SearchBuilds
SearchBuilds(args, up) ==
    IF ArgsErr(args, {"buildTypeId", "status", "state", "branch", "agent", "user",
                      "sinceBuild", "sinceDate", "untilDate"},
               {"personal", "pinned"}, {"count"}, {"tags"}, {})
    THEN Outcome(InvalidArguments, <<>>, <<>>, <<>>)
    ELSE
    LET m == <<RecordTeamCityRequest("search_builds", "success")>>
        endpoint == <<"/builds", "?locator=">>
                    \o locator(IntField(Member(args, "count")),
                               searchBuildsParams(args))
        req == <<Request("GET", endpoint, FALSE)>>
        r == makeRequest(up[1])
    IN  IF r.err # NoError
        THEN Outcome(<<"failed to search builds: ">> \o r.err, <<>>, req, m)
        ELSE IF ~BodyParses(r.body)
        THEN Outcome(<<"failed to parse builds response: ", "invalid JSON">>,
                     <<>>, req, m)
        ELSE IF r.body.count = 0
        THEN Outcome(NoError,
                     <<"No builds found matching the specified criteria.">>, req, m)
        ELSE Outcome(NoError, <<"Found ", ToString(r.body.count), " builds:">>,
                     req, m)

\* Client.FetchBuildLog.  The request goes to /downloadBuildLog.html directly
\* (not through makeRequest, and not under /app/rest); the answer is text,
\* so any body below status 400 is accepted.  The returned text is named by
\* its first line; the filtering of the log lines is applyBuildLogFilters.
FetchBuildLog(args, up) ==
    IF ArgsErr(args, {"buildId", "dateFormat", "filterPattern", "severity"},
               {"plain", "archived"}, {"maxLines", "tailLines"}, {}, {})
    THEN Outcome(InvalidArguments, <<>>, <<>>, <<>>)
    ELSE IF Str(args, "buildId") = ""
    THEN Outcome(<<"buildId is required">>, <<>>, <<>>, <<>>)
    ELSE IF /\ Str(args, "severity") # ""
            /\ ToLower(Str(args, "severity")) \notin {"error", "warning", "info"}
    THEN Outcome(<<"invalid severity: must be 'error', 'warning', or 'info'">>,
                 <<>>, <<>>, <<>>)
    ELSE
    LET m == <<RecordTeamCityRequest("fetch_build_log", "success")>>
        plain == IF BoolFieldSet(Member(args, "plain"))
                 THEN BoolField(Member(args, "plain")) ELSE TRUE
        archived == BoolField(Member(args, "archived"))
        endpoint == <<"/downloadBuildLog.html?buildId=", Str(args, "buildId")>>
                    \o (IF plain THEN <<"&", "plain=true">> ELSE <<>>)
                    \o (IF archived THEN <<"&", "archived=true">> ELSE <<>>)
                    \o (IF Str(args, "dateFormat") # ""
                        THEN <<"&", "dateFormat=", Str(args, "dateFormat")>>
                        ELSE <<>>)
        req == <<Request("GET", endpoint, FALSE)>>
        resp == up[1]
    IN  IF resp.status = 0
        THEN Outcome(<<"making request: ", "round trip failed">>, <<>>, req, m)
        ELSE IF resp.status >= 400
        THEN Outcome(<<"API error ", ToString(resp.status), ": ", resp.body>>,
                     <<>>, req, m)
        ELSE IF archived
        THEN Outcome(NoError,
                     <<"Build log for build ", Str(args, "buildId"),
                       " downloaded as archive">>, req, m)
        ELSE Outcome(NoError, <<"Build log for build ", Str(args, "buildId")>>,
                     req, m)

\* DetailedBuildType, as far as the detailed filters read it: the names and
\* values of its parameters, the types and names of its steps and the
\* vcsName of its VCS roots, each text as its characters.
DetailedBuildType(parameters, steps, vcsRoots) ==
    [parameters |-> parameters, steps |-> steps, vcsRoots |-> vcsRoots]

\* What the upstream holds for one build configuration of a search: its
\* detail cannot be fetched, its detail is not JSON, or it is one of two
\* build configurations, a Gradle build and an empty one.
DetailAnswers ==
    {[kind |-> "unreachable"], [kind |-> "unparsable"],
     [kind |-> "detail",
      config |-> DetailedBuildType(
                    <<>>, <<[type |-> <<"G", "r", "a", "d", "l", "e">>,
                             name |-> <<"B">>]>>, <<>>)],
     [kind |-> "detail", config |-> DetailedBuildType(<<>>, <<>>, <<>>)]}

\* The clauses getBasicBuildConfigurations appends to its locator.
basicConfigurationParams(args) ==
    LET strClause(k, key) ==
            IF Str(args, k) # "" THEN <<<<key, Str(args, k)>>>> ELSE <<>>
        boolClause(k, key) ==
            IF BoolFieldSet(Member(args, k))
            THEN <<<<key, IF BoolField(Member(args, k)) THEN "true" ELSE "false">>>>
            ELSE <<>>
    IN  strClause("projectId", "project:") \o strClause("name", "name:")
        \o boolClause("enabled", "enabled:") \o boolClause("paused", "paused:")
        \o boolClause("template", "template:")

\* Client.getBasicBuildConfigurations
getBasicBuildConfigurations(args, resp) ==
    LET endpoint == <<"/buildTypes", "?locator=">>
                    \o locator(IntField(Member(args, "count")),
                               basicConfigurationParams(args))
        req == <<Request("GET", endpoint, FALSE)>>
        r == makeRequest(resp)
    IN  IF r.err # NoError
        THEN Outcome(<<"failed to search build configurations: ">> \o r.err,
                     0, req, <<>>)
        ELSE IF ~BodyParses(r.body)
        THEN Outcome(<<"failed to parse build configurations response: ",
                       "invalid JSON">>, 0, req, <<>>)
        ELSE Outcome(NoError, r.body.count, req, <<>>)

\* Client.getBuildConfigurationDetails for configuration i: the first GET
\* decides; the three that follow (parameters, steps, VCS roots) are issued
\* whatever their answers and only log their failures.
getBuildConfigurationDetails(i, answer) ==
    LET id == <<"/buildTypes/id:", ToString(i)>>
        first == Request("GET", id \o <<"?fields=">>, FALSE)
    IN  IF answer.kind = "unreachable"
        THEN Outcome(<<"failed to get build type details: ", "round trip failed">>,
                     <<>>, <<first>>, <<>>)
        ELSE IF answer.kind = "unparsable"
        THEN Outcome(<<"failed to parse build type details: ", "invalid JSON">>,
                     <<>>, <<first>>, <<>>)
        ELSE Outcome(NoError, answer.config,
                     <<first,
                       Request("GET", id \o <<"/parameters">>, FALSE),
                       Request("GET", id \o <<"/steps">>, FALSE),
                       Request("GET", id \o <<"/vcs-root-entries">>, FALSE)>>,
                     <<>>)

DetailedFilters ==
    {"parameterName", "parameterValue", "stepType", "stepName", "vcsType"}

\* strings.ToLower, character by character.
LowerChars(cs) ==
    [i \in 1..Len(cs) |->
        CASE cs[i] = "A" -> "a"
          [] cs[i] = "B" -> "b"
          [] cs[i] = "G" -> "g"
          [] OTHER -> cs[i]]

\* strings.Contains
Contains(cs, sub) ==
    \E i \in 0..(Len(cs) - Len(sub)) : SubSeq(cs, i + 1, i + Len(sub)) = sub

\* strings.Contains(strings.ToLower(text), strings.ToLower(filter))
containsFold(text, filter) ==
    Contains(LowerChars(text), LowerChars(Chars(filter)))

\* matchesDetailedCriteria as it would be if the name and the value of a
\* parameter (the type and the name of a step) were each looked for on
\* their own, in any parameter (step).
matchesDetailedCriteriaApart(config, args) ==
    LET some(list, field, k) ==
            Str(args, k) # ""
                => \E i \in 1..Len(list) : containsFold(list[i][field], Str(args, k))
    IN  /\ some(config.parameters, "name", "parameterName")
        /\ some(config.parameters, "value", "parameterValue")
        /\ some(config.steps, "type", "stepType")
        /\ some(config.steps, "name", "stepName")
        /\ some(config.vcsRoots, "vcsName", "vcsType")

\* Client.matchesDetailedCriteria
matchesDetailedCriteria(config, args) ==
    LET fits(text, k) == Str(args, k) = "" \/ containsFold(text, Str(args, k))
        paramMatch ==
            \E i \in 1..Len(config.parameters) :
                /\ fits(config.parameters[i].name, "parameterName")
                /\ fits(config.parameters[i].value, "parameterValue")
        stepMatch ==
            \E i \in 1..Len(config.steps) :
                /\ fits(config.steps[i].type, "stepType")
                /\ fits(config.steps[i].name, "stepName")
        vcsMatch ==
            \E i \in 1..Len(config.vcsRoots) :
                containsFold(config.vcsRoots[i].vcsName, Str(args, "vcsType"))
    IN  /\ (Str(args, "parameterName") # "" \/ Str(args, "parameterValue") # "")
              => paramMatch
        /\ (Str(args, "stepType") # "" \/ Str(args, "stepName") # "")
              => stepMatch
        /\ Str(args, "vcsType") # "" => vcsMatch

RECURSIVE configurationLoop(_, _, _, _)
\* configurationLoop as it would be if a failed detail fetch ended the loop.
configurationLoopAborting(i, n, args, det) ==
    IF i > n THEN [calls |-> <<>>, kept |-> <<>>]
    ELSE
    LET rest == configurationLoop(i + 1, n, args, det)
        detailed == \/ BoolField(Member(args, "includeDetails"))
                    \/ \E k \in DetailedFilters : Str(args, k) # ""
        d == getBuildConfigurationDetails(i, det[i])
    IN  IF ~detailed
        THEN [calls |-> rest.calls, kept |-> <<i>> \o rest.kept]
        ELSE IF d.err # NoError
        THEN [calls |-> d.calls, kept |-> <<>>]
        ELSE IF matchesDetailedCriteria(d.value, args)
        THEN [calls |-> d.calls \o rest.calls, kept |-> <<i>> \o rest.kept]
        ELSE [calls |-> d.calls \o rest.calls, kept |-> rest.kept]

\* The loop of SearchBuildConfigurations over configurations i..n: the
\* requests issued and the configurations retained.
configurationLoop(i, n, args, det) ==
    IF i > n THEN [calls |-> <<>>, kept |-> <<>>]
    ELSE
    LET rest == configurationLoop(i + 1, n, args, det)
        detailed == \/ BoolField(Member(args, "includeDetails"))
                    \/ \E k \in DetailedFilters : Str(args, k) # ""
        d == getBuildConfigurationDetails(i, det[i])
    IN  IF ~detailed
        THEN [calls |-> rest.calls, kept |-> <<i>> \o rest.kept]
        ELSE IF d.err # NoError
        THEN [calls |-> d.calls \o rest.calls, kept |-> rest.kept]
        ELSE IF matchesDetailedCriteria(d.value, args)
        THEN [calls |-> d.calls \o rest.calls, kept |-> <<i>> \o rest.kept]
        ELSE [calls |-> d.calls \o rest.calls, kept |-> rest.kept]

\* Client.formatDetailedSearchResults
formatDetailedSearchResults(kept) ==
    IF kept = <<>>
    THEN <<"No build configurations found matching the specified criteria.">>
    ELSE <<"Found ", ToString(Len(kept)), " build configurations:">>
         \o [k \in 1..Len(kept) |-> ToString(kept[k])]

\* Client.SearchBuildConfigurations
SearchBuildConfigurations(args, up, det) ==
    IF ArgsErr(args, {"projectId", "name"} \cup DetailedFilters,
               {"enabled", "paused", "template", "includeDetails"}, {"count"},
               {}, {})
    THEN Outcome(InvalidArguments, <<>>, <<>>, <<>>)
    ELSE
    LET m == <<RecordTeamCityRequest("search_build_configurations", "success")>>
        basic == getBasicBuildConfigurations(args, up[1])
        loop == configurationLoop(1, basic.value, args, det)
    IN  IF basic.err # NoError
        THEN Outcome(<<"failed to get basic configurations: ">> \o basic.err,
                     <<>>, basic.calls, m)
        ELSE Outcome(NoError, formatDetailedSearchResults(loop.kept),
                     basic.calls \o loop.calls, m)

\* time.LoadLocation succeeds for the names of the zone database.
KnownLocations == {"", "UTC", "America/New_York"}

\* Handler.getCurrentTime: the text names the layout and the zone used; the
\* instant itself comes from the clock.
getCurrentTime(args) ==
    IF RawLen(args) > 0 /\ ArgsErr(args, {"format", "timezone"}, {}, {}, {}, {})
    THEN Outcome(InvalidArguments, <<>>, <<>>, <<>>)
    ELSE
    LET format == StringField(Member(args, "format"), "rfc3339")
        timezone == StringField(Member(args, "timezone"), "Local")
    IN  IF timezone \notin {"Local", "UTC"} /\ timezone \notin KnownLocations
        THEN Outcome(<<"invalid timezone '", timezone, "': ", "unknown time zone">>,
                     <<>>, <<>>, <<>>)
        ELSE Outcome(NoError,
                     <<"Current time: ", format, "\nTimezone: ", timezone>>,
                     <<>>, <<>>)

\* The names callTool dispatches on.
ToolNames ==
    {"trigger_build", "cancel_build", "pin_build", "set_build_tag",
     "download_artifact", "search_builds", "fetch_build_log",
     "search_build_configurations", "get_current_time"}

\* callTool as it would be if the switch had no case for get_current_time.
callToolWithoutTime(name, args, up, det) ==
    CASE name = "trigger_build" -> TriggerBuild(args, up)
      [] name = "cancel_build" -> CancelBuild(args, up)
      [] name = "pin_build" -> PinBuild(args, up)
      [] name = "set_build_tag" -> SetBuildTag(args, up)
      [] name = "download_artifact" -> DownloadArtifact(args)
      [] name = "search_builds" -> SearchBuilds(args, up)
      [] name = "fetch_build_log" -> FetchBuildLog(args, up)
      [] name = "search_build_configurations" ->
            SearchBuildConfigurations(args, up, det)
      [] OTHER -> Outcome(<<"unknown tool: ", name>>, <<>>, <<>>, <<>>)

\* Handler.callTool
callTool(name, args, up, det) ==
    CASE name = "trigger_build" -> TriggerBuild(args, up)
      [] name = "cancel_build" -> CancelBuild(args, up)
      [] name = "pin_build" -> PinBuild(args, up)
      [] name = "set_build_tag" -> SetBuildTag(args, up)
      [] name = "download_artifact" -> DownloadArtifact(args)
      [] name = "search_builds" -> SearchBuilds(args, up)
      [] name = "fetch_build_log" -> FetchBuildLog(args, up)
      [] name = "search_build_configurations" ->
            SearchBuildConfigurations(args, up, det)
      [] name = "get_current_time" -> getCurrentTime(args)
      [] OTHER -> Outcome(<<"unknown tool: ", name>>, <<>>, <<>>, <<>>)

\* Handler.handleToolsCall
handleToolsCall(id, params, up, det) ==
    IF StructErr(params) \/ StringFieldErr(Member(params, "name"))
    THEN HandledLocally(errorResponse(id, InvalidParamsCode, "Invalid params", NoData))
    ELSE LET out == callTool(StringField(Member(params, "name"), ""),
                             Member(params, "arguments"), up, det)
         IN  IF out.err # NoError
             THEN Handled(errorResponse(id, InternalErrorCode,
                                        "Tool execution failed", out.err), out)
             ELSE Handled(successResponse(id,
                            [content |-> <<[type |-> "text", text |-> out.value]>>]),
                          out)

----------------------------------------------------------------------------
(* The handlers that need no upstream (handler.go).                        *)

\* Handler.handleInitialize: params are not looked at.
handleInitialize(id) ==
    HandledLocally(successResponse(id,
        [protocolVersion |-> "2024-11-05",
         capabilities |-> {"resources", "tools", "logging"},
         serverInfo |-> [name |-> "teamcity-mcp", version |-> "1.0.0",
                         currentTime |-> "now"]]))

\* handleInitialized as it would be if it acknowledged the notification.
handleInitializedAcknowledging(id) ==
    HandledLocally(successResponse(id, [empty |-> TRUE]))

\* Handler.handleInitialized: a notification, nothing is returned.
handleInitialized(id) == HandledLocally(NoReply)

\* The tools handleToolsList describes: name and the "required" list of the
\* input schema.
ToolCatalog ==
    <<[name |-> "trigger_build", required |-> {"buildTypeId"}],
      [name |-> "cancel_build", required |-> {"buildId"}],
      [name |-> "pin_build", required |-> {"buildId", "pin"}],
      [name |-> "set_build_tag", required |-> {"buildId"}],
      [name |-> "download_artifact", required |-> {"buildId", "artifactPath"}],
      [name |-> "search_builds", required |-> {}],
      [name |-> "fetch_build_log", required |-> {"buildId"}],
      [name |-> "search_build_configurations", required |-> {}],
      [name |-> "get_current_time", required |-> {}]>>

\* handleToolsList as it would be if it asked the upstream for the tools.
handleToolsListAsking(id) ==
    Handled(successResponse(id, [tools |-> ToolCatalog]),
            Outcome(NoError, <<>>, <<Request("GET", <<"/tools">>, FALSE)>>, <<>>))

\* Handler.handleToolsList
handleToolsList(id) == HandledLocally(successResponse(id, [tools |-> ToolCatalog]))

\* Handler.handlePing
handlePing(id) == HandledLocally(successResponse(id, [empty |-> TRUE]))

----------------------------------------------------------------------------
(* The messages the model hands to HandleRequest.  A message is the JSON   *)
(* value its bytes spell, or NotJSON when they spell none.                 *)

NotJSON == [t |-> "invalid", s |-> "", n |-> 0]
NoMessage == [t |-> "none", s |-> "", n |-> 0]
EmptyObject == JObj(<<>>)

Envelope(jsonrpc, id, method, params) ==
    JObj([jsonrpc |-> jsonrpc, id |-> id, method |-> method, params |-> params])

KnownMethods ==
    {"initialize", "initialized", "notifications/initialized",
     "notifications/cancelled", "resources/list", "resources/read",
     "tools/list", "tools/call", "ping"}

JsonrpcValues == {JAbsent, JNull, JStr("2.0"), JStr("1.0"), JNum(2)}
IdValues == {JAbsent, JNull, JNum(0), JNum(1), JStr("req-7")}
MethodValues ==
    {JAbsent, JNum(5)}
    \cup {JStr(m) : m \in KnownMethods \cup {"", "invalid/method",
                                            "notifications/unknown"}}
PlainParams == {JAbsent, JNull, JArr(<<>>), EmptyObject}

UriValues ==
    {JNull, JNum(5), JStr("")}
    \cup {JStr(ResourceCatalogURIs[i]) : i \in 1..Len(ResourceCatalogURIs)}
    \cup {JStr("teamcity://builds/42"), JStr("teamcity://unknown/1"),
          JStr("http://example.com/x")}
ResourceParams == {JObj([uri |-> u]) : u \in UriValues}

AnyArguments == {JAbsent, JNull, JArr(<<>>), EmptyObject}

BuildIds == {JStr("42"), JStr("7"), JStr("-7"), JStr("abc"), JStr("4x"), JStr("")}

ToolArguments(name) ==
    AnyArguments \cup
    CASE name = "trigger_build" ->
            {JObj([buildTypeId |-> JStr("Proj_Build")]),
             JObj([buildTypeId |-> JStr("Proj_Build"), branchName |-> JStr("main"),
                   comment |-> JStr("go"), properties |-> EmptyObject]),
             JObj([branchName |-> JStr("main")]),
             JObj([buildTypeId |-> JNum(5)])}
      [] name = "cancel_build" ->
            {JObj([buildId |-> b]) : b \in BuildIds}
            \cup {JObj([buildId |-> JStr("42"), comment |-> JStr("stop")]),
                  JObj([buildId |-> JNum(42)]),
                  JObj([comment |-> JStr("stop")])}
      [] name = "pin_build" ->
            {JObj([buildId |-> b, pin |-> p]) :
                b \in {JStr("42"), JStr("abc")}, p \in {JBool(TRUE), JBool(FALSE)}}
            \cup {JObj([buildId |-> JStr("42")]),
                  JObj([pin |-> JBool(TRUE)]),
                  JObj([buildId |-> JStr("42"), pin |-> JStr("yes")])}
      [] name = "set_build_tag" ->
            {JObj([buildId |-> JStr("42")]),
             JObj([buildId |-> JStr("42"), tags |-> JArr(<<"nightly">>)]),
             JObj([buildId |-> JStr("42"), tags |-> JArr(<<"nightly", "green">>),
                   removeTags |-> JArr(<<"stale">>)]),
             JObj([buildId |-> JStr("42"), removeTags |-> JArr(<<"stale", "old">>)]),
             JObj([buildId |-> JStr("abc"), tags |-> JArr(<<"nightly">>)]),
             JObj([tags |-> JArr(<<"nightly">>)]),
             JObj([buildId |-> JStr("42"), tags |-> JStr("nightly")])}
      [] name = "download_artifact" ->
            {JObj([buildId |-> JStr("42"), artifactPath |-> JStr("out.zip")]),
             JObj([buildId |-> JStr("42")]),
             JObj([artifactPath |-> JStr("out.zip")]),
             JObj([buildId |-> JNum(42), artifactPath |-> JStr("out.zip")])}
      [] name = "search_builds" ->
            {JObj([status |-> JStr("FAILURE")]),
             JObj([buildTypeId |-> JStr("Proj_Build"), pinned |-> JBool(FALSE),
                   count |-> JNum(5), tags |-> JArr(<<"nightly", "green">>)]),
             JObj([count |-> JNum(0), branch |-> JStr("")]),
             JObj([count |-> JStr("five")])}
      [] name = "fetch_build_log" ->
            {JObj([buildId |-> JStr("42")]),
             JObj([buildId |-> JStr("")]),
             JObj([buildId |-> JStr("42"), severity |-> JStr("ERROR")]),
             JObj([buildId |-> JStr("42"), severity |-> JStr("fatal")]),
             JObj([buildId |-> JStr("42"), archived |-> JBool(TRUE),
                   plain |-> JBool(FALSE)]),
             JObj([buildId |-> JStr("abc"), tailLines |-> JNum(1)]),
             JObj([buildId |-> JStr("42"), maxLines |-> JStr("ten")])}
      [] name = "search_build_configurations" ->
            {JObj([projectId |-> JStr("Proj")]),
             JObj([includeDetails |-> JBool(TRUE)]),
             JObj([stepType |-> JStr("gradle"), enabled |-> JBool(TRUE)]),
             JObj([includeDetails |-> JStr("yes")])}
      [] name = "get_current_time" ->
            {JObj([format |-> JStr("date")]),
             JObj([timezone |-> JStr("UTC")]),
             JObj([timezone |-> JStr("America/New_York"), format |-> JStr("")]),
             JObj([timezone |-> JStr("Mars/Olympus")]),
             JObj([format |-> JNum(5)])}
      [] OTHER -> {}

ToolParams ==
    {JObj([name |-> JStr(n), arguments |-> a]) :
        n \in {"no_such_tool", ""}, a \in {JAbsent, EmptyObject}}
    \cup UNION {{JObj([name |-> JStr(n), arguments |-> a]) : a \in ToolArguments(n)} :
                n \in ToolNames}
    \cup {JObj([name |-> JNum(5), arguments |-> EmptyObject]),
          JObj([arguments |-> EmptyObject])}

Messages ==
    {NotJSON, JArr(<<>>), JNull, EmptyObject}
    \cup {Envelope(j, i, m, p) : j \in JsonrpcValues, i \in IdValues,
                                 m \in MethodValues, p \in PlainParams}
    \cup {Envelope(j, i, JStr(m), p) :
            j \in {JStr("2.0"), JStr("1.0")}, i \in IdValues,
            m \in {"resources/list", "resources/read"}, p \in ResourceParams}
    \cup {Envelope(j, i, JStr("tools/call"), p) :
            j \in {JStr("2.0"), JStr("1.0")}, i \in IdValues, p \in ToolParams}

----------------------------------------------------------------------------
(* The report FetchBuildLog makes of a plain-text log (part_002:886-927)   *)
(* and applyBuildLogFilters.  A log line is its text together with what    *)
(* the matching functions find in it: `regex` the patterns that match it   *)
(* as regular expressions, `literal` the patterns it contains as           *)
(* substrings, `lower` the severity patterns its lower-cased text          *)
(* contains, `blank` whether strings.TrimSpace leaves nothing.             *)

LogLines ==
    {[text |-> "ERROR: deploy failed", regex |-> {"deploy"},
      literal |-> {"deploy"}, lower |-> {"error", "fail"}, blank |-> FALSE],
     [text |-> "[W] deploy slow", regex |-> {"deploy"},
      literal |-> {"deploy"}, lower |-> {"[w]"}, blank |-> FALSE],
     [text |-> "deploy ok", regex |-> {"deploy", "^deploy"},
      literal |-> {"deploy"}, lower |-> {}, blank |-> FALSE],
     [text |-> "dep(loy step", regex |-> {},
      literal |-> {"dep(loy"}, lower |-> {}, blank |-> FALSE],
     [text |-> "  ", regex |-> {}, literal |-> {}, lower |-> {}, blank |-> TRUE]}

\* The filter patterns of the model; regexp.Compile fails on an unclosed
\* parenthesis.
FilterPatterns == {"", "deploy", "^deploy", "dep(loy"}
Compiles(pattern) == pattern # "dep(loy"

errorPatterns == {"error", "fail", "exception", "fatal", "[e]", "[error]"}
warningPatterns == {"warn", "warning", "[w]", "[warn]"}

\* Client.applyBuildLogFilters
applyBuildLogFilters(lines, pattern, severity) ==
    LET matchesPattern(line) ==
            IF Compiles(pattern) THEN pattern \in line.regex
            ELSE pattern \in line.literal
        afterPattern ==
            IF pattern # "" THEN SelectSeq(lines, matchesPattern) ELSE lines
        severityLower == ToLower(severity)
        patterns == CASE severityLower = "error" -> errorPatterns
                      [] severityLower = "warning" -> warningPatterns
                      [] OTHER -> {}
        isInfo(line) ==
            /\ line.lower \cap (errorPatterns \cup warningPatterns) = {}
            /\ ~line.blank
        hasSeverity(line) == line.lower \cap patterns # {}
    IN  IF severity = "" THEN afterPattern
        ELSE IF severityLower = "info" THEN SelectSeq(afterPattern, isInfo)
        ELSE SelectSeq(afterPattern, hasSeverity)

\* filteredLines[len(filteredLines)-tailCount:] and filteredLines[:maxLines]
lastLines(lines, n) == SubSeq(lines, Len(lines) - n + 1, Len(lines))
firstLines(lines, n) == SubSeq(lines, 1, n)

\* The rest of FetchBuildLog once the plain-text body is read: the filters,
\* the tail, the cap, and the summary line of the result.
buildLogReport(lines, args) ==
    LET pattern == Str(args, "filterPattern")
        severity == Str(args, "severity")
        tailSet == Member(args, "tailLines").t = "number"
        tailCount == IntField(Member(args, "tailLines"))
        maxSet == Member(args, "maxLines").t = "number"
        maxLines == IntField(Member(args, "maxLines"))
        filtered == applyBuildLogFilters(lines, pattern, severity)
        tailed == IF tailSet /\ tailCount > 0 /\ tailCount < Len(filtered)
                  THEN lastLines(filtered, tailCount) ELSE filtered
        capped == IF maxSet /\ maxLines > 0 /\ maxLines < Len(tailed)
                  THEN firstLines(tailed, maxLines) ELSE tailed
    IN  [total |-> Len(lines),
         hasFiltered |-> pattern # "" \/ severity # "" \/ tailSet,
         filtered |-> Len(capped),
         showing |-> Len(capped),
         shown |-> capped]

\* The logs and the arguments of the model.  strings.Split gives at least
\* one line; the severity has passed the validation of FetchBuildLog.
Logs == UNION {[1..n -> LogLines] : n \in 1..MaxLogLines}
LogArguments ==
    {JObj([buildId |-> JStr("42"), filterPattern |-> p, severity |-> s,
           tailLines |-> t, maxLines |-> m]) :
        p \in {JAbsent} \cup {JStr(x) : x \in FilterPatterns \ {""}},
        s \in {JAbsent, JStr("error"), JStr("Warning"), JStr("info")},
        t \in {JAbsent, JNum(0), JNum(1), JNum(2)},
        m \in {JAbsent, JNum(1), JNum(2)}}

NoLog == [pc |-> "none"]

\* The body of the upstream answer is read and split into lines.
LogRead ==
    /\ log.pc = "none"
    /\ \E lines \in Logs, args \in LogArguments :
          log' = [pc |-> "read", lines |-> lines, args |-> args]
    /\ UNCHANGED <<dispatcherVars, cacheVars, detail, transportVars>>

\* The lines are filtered and the result is built.
LogReported ==
    /\ log.pc = "read"
    /\ log' = [pc |-> "reported", lines |-> log.lines, args |-> log.args,
               report |-> buildLogReport(log.lines, log.args)]
    /\ UNCHANGED <<dispatcherVars, cacheVars, detail, transportVars>>

\* FetchBuildLog returns.
LogReturned ==
    /\ log.pc = "reported"
    /\ log' = NoLog
    /\ UNCHANGED <<dispatcherVars, cacheVars, detail, transportVars>>

LogNext == LogRead \/ LogReported \/ LogReturned

----------------------------------------------------------------------------
(* matchesDetailedCriteria on the build configurations and requests it may *)
(* be given.                                                               *)

Parameters ==
    {[name |-> n, value |-> v] : n \in {<<"A">>, <<"b">>},
                                 v \in {<<"a", "b">>, <<"c">>}}
Steps == {[type |-> <<"A">>, name |-> <<"c">>], [type |-> <<"c">>, name |-> <<"a", "b">>]}
VcsRoots == {[vcsName |-> <<"c", "a">>]}

Configurations ==
    {DetailedBuildType(p, s, v) :
        p \in UNION {[1..n -> Parameters] : n \in 0..MaxDetails},
        s \in UNION {[1..n -> Steps] : n \in 0..MaxDetails},
        v \in UNION {[1..n -> VcsRoots] : n \in 0..1}}

DetailedArguments ==
    {JObj([parameterName |-> pn, parameterValue |-> pv, stepType |-> st,
           stepName |-> sn, vcsType |-> vt]) :
        pn \in {JAbsent, JStr("a")}, pv \in {JAbsent, JStr("B")},
        st \in {JAbsent, JStr("a")}, sn \in {JAbsent, JStr("B")},
        vt \in {JAbsent, JStr("A")}}

NoDetail == [pc |-> "none"]

\* getBuildConfigurationDetails has returned a build configuration.
DetailFetched ==
    /\ detail.pc = "none"
    /\ \E config \in Configurations, args \in DetailedArguments :
          detail' = [pc |-> "fetched", config |-> config, args |-> args]
    /\ UNCHANGED <<dispatcherVars, cacheVars, log, transportVars>>

\* The loop of SearchBuildConfigurations applies the detailed filters.
DetailMatched ==
    /\ detail.pc = "fetched"
    /\ detail' = [pc |-> "matched", config |-> detail.config, args |-> detail.args,
                  retained |-> matchesDetailedCriteria(detail.config, detail.args)]
    /\ UNCHANGED <<dispatcherVars, cacheVars, log, transportVars>>

\* The loop goes on to the next build configuration.
DetailNext ==
    /\ detail.pc = "matched"
    /\ detail' = NoDetail
    /\ UNCHANGED <<dispatcherVars, cacheVars, log, transportVars>>

CriteriaNext == DetailFetched \/ DetailMatched \/ DetailNext

----------------------------------------------------------------------------
(* The TTL cache (internal/cache/cache.go).  The server builds one and     *)
(* hands it to the handler; its operations are called here by Clients.     *)

\* c.ttl, in ticks of the clock.
TTL == 1

Keys == {"teamcity://projects", "teamcity://builds"}
Values == {"a", "b"}
Clients == {"c1", "c2"}
Cleaner == "cleanup"

\* *cacheItem, and a key that is not in the map.
cacheItem(value, expiration) ==
    [present |-> TRUE, value |-> value, expiration |-> expiration]
NoItem == [present |-> FALSE, value |-> "", expiration |-> 0]

\* t.After(u)
After(t, u) == t > u

\* What Get returns, with the label of the metric it records.
Found(value) == [ok |-> TRUE, value |-> value, metric |-> "hit"]
NotFound(metric) == [ok |-> FALSE, value |-> "", metric |-> metric]

\* Get as it would be if it returned whatever the map holds.
GetUnexpiring(d, key, t) ==
    IF ~d[key].present THEN NotFound("unknown") ELSE Found(d[key].value)

\* Cache.Get, under the read lock, at time t.
Get(d, key, t) ==
    IF ~d[key].present THEN NotFound("unknown")
    ELSE IF After(t, d[key].expiration) THEN NotFound("expired")
    ELSE Found(d[key].value)

\* Cache.Set, under the write lock, at time t: a new item replaces the old.
Set(d, key, value, t) == [d EXCEPT ![key] = cacheItem(value, t + TTL)]

\* Cache.Delete
Delete(d, key) == [d EXCEPT ![key] = NoItem]

\* Cache.Clear
Clear == [k \in Keys |-> NoItem]

\* The body of the cleanup loop, under the write lock, at time t.
cleanup(d, t) ==
    [k \in Keys |-> IF d[k].present /\ After(t, d[k].expiration)
                    THEN NoItem ELSE d[k]]

\* sync.RWMutex.  Lock announces the writer and waits until no reader and no
\* writer holds the mutex; RLock waits while a writer holds it or waits.
Unlocked == [writer |-> "none", readers |-> {}, pending |-> {}]

Idle == [pc |-> "idle", op |-> "none", key |-> "", value |-> "",
         res |-> NotFound("none"), at |-> 0]

Calling(op, key, value) ==
    [pc |-> "waiting", op |-> op, key |-> key, value |-> value,
     res |-> NotFound("none"), at |-> 0]

NoSet == [set |-> FALSE, value |-> "", at |-> 0]

\* time passes
Tick ==
    /\ now < MaxTime
    /\ now' = now + 1
    /\ UNCHANGED <<cache, mu, proc, lastSet, dispatcherVars, log, detail, transportVars>>

\* A client calls Get(key) and reaches c.mu.RLock().
CallGet(p) ==
    /\ proc[p].pc = "idle"
    /\ \E k \in Keys : proc' = [proc EXCEPT ![p] = Calling("Get", k, "")]
    /\ UNCHANGED <<cache, mu, now, lastSet, dispatcherVars, log, detail, transportVars>>

\* A client calls Set(key, value) and reaches c.mu.Lock().
CallSet(p) ==
    /\ proc[p].pc = "idle"
    /\ \E k \in Keys, v \in Values :
          proc' = [proc EXCEPT ![p] = Calling("Set", k, v)]
    /\ mu' = [mu EXCEPT !.pending = @ \cup {p}]
    /\ UNCHANGED <<cache, now, lastSet, dispatcherVars, log, detail, transportVars>>

\* A client calls Delete(key) and reaches c.mu.Lock().
CallDelete(p) ==
    /\ proc[p].pc = "idle"
    /\ \E k \in Keys : proc' = [proc EXCEPT ![p] = Calling("Delete", k, "")]
    /\ mu' = [mu EXCEPT !.pending = @ \cup {p}]
    /\ UNCHANGED <<cache, now, lastSet, dispatcherVars, log, detail, transportVars>>

\* A client calls Clear() and reaches c.mu.Lock().
CallClear(p) ==
    /\ proc[p].pc = "idle"
    /\ proc' = [proc EXCEPT ![p] = Calling("Clear", "", "")]
    /\ mu' = [mu EXCEPT !.pending = @ \cup {p}]
    /\ UNCHANGED <<cache, now, lastSet, dispatcherVars, log, detail, transportVars>>

\* The ticker of the cleanup goroutine fires and it reaches c.mu.Lock().
TickerFires ==
    /\ proc[Cleaner].pc = "idle"
    /\ proc' = [proc EXCEPT ![Cleaner] = Calling("cleanup", "", "")]
    /\ mu' = [mu EXCEPT !.pending = @ \cup {Cleaner}]
    /\ UNCHANGED <<cache, now, lastSet, dispatcherVars, log, detail, transportVars>>

\* RLock as it would be on a plain mutex, one holder at a time.
RLockExclusive(p) ==
    /\ proc[p].pc = "waiting"
    /\ proc[p].op = "Get"
    /\ mu.writer = "none"
    /\ mu.pending = {}
    /\ mu.readers = {}
    /\ mu' = [mu EXCEPT !.readers = @ \cup {p}]
    /\ proc' = [proc EXCEPT ![p].pc = "locked"]
    /\ UNCHANGED <<cache, now, lastSet, dispatcherVars, log, detail, transportVars>>

\* c.mu.RLock() returns.
RLock(p) ==
    /\ proc[p].pc = "waiting"
    /\ proc[p].op = "Get"
    /\ mu.writer = "none"
    /\ mu.pending = {}
    /\ mu' = [mu EXCEPT !.readers = @ \cup {p}]
    /\ proc' = [proc EXCEPT ![p].pc = "locked"]
    /\ UNCHANGED <<cache, now, lastSet, dispatcherVars, log, detail, transportVars>>

\* c.mu.Lock() returns.
Lock(p) ==
    /\ proc[p].pc = "waiting"
    /\ proc[p].op # "Get"
    /\ mu.writer = "none"
    /\ mu.readers = {}
    /\ mu' = [mu EXCEPT !.writer = p, !.pending = @ \ {p}]
    /\ proc' = [proc EXCEPT ![p].pc = "locked"]
    /\ UNCHANGED <<cache, now, lastSet, dispatcherVars, log, detail, transportVars>>

\* The body of Get: the lookup and the comparison with time.Now().
GetBody(p) ==
    /\ proc[p].pc = "locked"
    /\ proc[p].op = "Get"
    /\ proc' = [proc EXCEPT ![p].pc = "done",
                            ![p].res = Get(cache, proc[p].key, now),
                            ![p].at = now]
    /\ UNCHANGED <<cache, mu, now, lastSet, dispatcherVars, log, detail, transportVars>>

\* The body of Set.
SetBody(p) ==
    /\ proc[p].pc = "locked"
    /\ proc[p].op = "Set"
    /\ cache' = Set(cache, proc[p].key, proc[p].value, now)
    /\ lastSet' = [lastSet EXCEPT ![proc[p].key] =
                      [set |-> TRUE, value |-> proc[p].value, at |-> now]]
    /\ proc' = [proc EXCEPT ![p].pc = "done"]
    /\ UNCHANGED <<mu, now, dispatcherVars, log, detail, transportVars>>

\* The body of Delete.
DeleteBody(p) ==
    /\ proc[p].pc = "locked"
    /\ proc[p].op = "Delete"
    /\ cache' = Delete(cache, proc[p].key)
    /\ lastSet' = [lastSet EXCEPT ![proc[p].key] = NoSet]
    /\ proc' = [proc EXCEPT ![p].pc = "done"]
    /\ UNCHANGED <<mu, now, dispatcherVars, log, detail, transportVars>>

\* The body of Clear.
ClearBody(p) ==
    /\ proc[p].pc = "locked"
    /\ proc[p].op = "Clear"
    /\ cache' = Clear
    /\ lastSet' = [k \in Keys |-> NoSet]
    /\ proc' = [proc EXCEPT ![p].pc = "done"]
    /\ UNCHANGED <<mu, now, dispatcherVars, log, detail, transportVars>>

\* One pass of the cleanup loop.
CleanupBody ==
    /\ proc[Cleaner].pc = "locked"
    /\ cache' = cleanup(cache, now)
    /\ proc' = [proc EXCEPT ![Cleaner].pc = "done"]
    /\ UNCHANGED <<mu, now, lastSet, dispatcherVars, log, detail, transportVars>>

\* The deferred c.mu.RUnlock(); Get returns.
RUnlock(p) ==
    /\ proc[p].pc = "done"
    /\ proc[p].op = "Get"
    /\ mu' = [mu EXCEPT !.readers = @ \ {p}]
    /\ proc' = [proc EXCEPT ![p] = Idle]
    /\ UNCHANGED <<cache, now, lastSet, dispatcherVars, log, detail, transportVars>>

\* c.mu.Unlock(); the writer returns (the cleanup loop waits for its ticker).
Unlock(p) ==
    /\ proc[p].pc = "done"
    /\ proc[p].op # "Get"
    /\ mu' = [mu EXCEPT !.writer = "none"]
    /\ proc' = [proc EXCEPT ![p] = Idle]
    /\ UNCHANGED <<cache, now, lastSet, dispatcherVars, log, detail, transportVars>>

CacheNext ==
    \/ Tick
    \/ \E p \in Clients : CallGet(p)
    \/ \E p \in Clients : CallSet(p)
    \/ \E p \in Clients : CallDelete(p)
    \/ \E p \in Clients : CallClear(p)
    \/ TickerFires
    \/ \E p \in Clients : RLock(p)
    \/ \E p \in Clients \cup {Cleaner} : Lock(p)
    \/ \E p \in Clients : GetBody(p)
    \/ \E p \in Clients : SetBody(p)
    \/ \E p \in Clients : DeleteBody(p)
    \/ \E p \in Clients : ClearBody(p)
    \/ CleanupBody
    \/ \E p \in Clients : RUnlock(p)
    \/ \E p \in Clients \cup {Cleaner} : Unlock(p)

----------------------------------------------------------------------------
(* HandleRequest (handler.go).                                             *)

\* EnvelopeErr as it would be if method were decoded leniently (a raw field
\* instead of a string field).
EnvelopeErrLenient(m) ==
    \/ StructErr(m)
    \/ StringFieldErr(Member(m, "jsonrpc"))

\* json.Unmarshal(req, &baseReq) fails: the bytes are not JSON, or spell a
\* value that is neither an object nor null, or jsonrpc / method is not a
\* string.  id (interface{}) and params (json.RawMessage) take any value.
EnvelopeErr(m) ==
    \/ StructErr(m)
    \/ StringFieldErr(Member(m, "jsonrpc"))
    \/ StringFieldErr(Member(m, "method"))

\* The fields of baseReq after a successful decode.
JSONRPC(m) == StringField(Member(m, "jsonrpc"), "")
ID(m) == InterfaceField(Member(m, "id"))
Method(m) == StringField(Member(m, "method"), "")
Params(m) == Member(m, "params")

\* The number of upstream answers the operation behind a tools/call may
\* consume.
requestsAtMost(params) ==
    LET name == StringField(Member(params, "name"), "")
        args == Member(params, "arguments")
    IN  CASE name \in {"cancel_build", "pin_build"} -> 2
          [] name = "set_build_tag" ->
                1 + Len(StringsField(Member(args, "tags")))
                  + Len(StringsField(Member(args, "removeTags")))
          [] name \in {"trigger_build", "search_builds", "fetch_build_log",
                       "search_build_configurations"} -> 1
          [] OTHER -> 0

\* What the upstream may hold for the configurations of a search (only
\* search_build_configurations looks at it).
detailChoices(params) ==
    IF StringField(Member(params, "name"), "") = "search_build_configurations"
    THEN [1..MaxEntities -> DetailAnswers]
    ELSE {[i \in 1..MaxEntities |-> [kind |-> "unreachable"]]}

\* No upstream is involved.
NoAnswers == [up |-> <<>>, det |-> <<>>]

\* HandleRequest returns: h is what the handler did, route the switch case,
\* given what the upstream held ready.  Once the version check has passed,
\* the deferred RecordMCPRequest runs last, labelled with the method and
\* "success".
ReturnAnswered(h, route, timed, given) ==
    /\ pc' = "done"
    /\ reply' = h.reply
    /\ routed' = route
    /\ calls' = h.calls
    /\ recorded' = IF timed
                   THEN h.metrics \o <<RecordMCPRequest(Method(msg), "success")>>
                   ELSE h.metrics
    /\ answers' = given
    /\ UNCHANGED <<msg, cacheVars, log, detail, transportVars>>

\* HandleRequest returns from a handler that has no upstream to ask.
Return(h, route, timed) == ReturnAnswered(h, route, timed, NoAnswers)

\* The switch reaches the case of `method`.
Routes(method) ==
    /\ pc = "received"
    /\ ~EnvelopeErr(msg)
    /\ JSONRPC(msg) = "2.0"
    /\ Method(msg) = method

\* A transport hands a message to HandleRequest.
Receive ==
    /\ pc = "idle"
    /\ \E m \in Messages : msg' = m
    /\ pc' = "received"
    /\ UNCHANGED <<reply, routed, calls, recorded, answers, cacheVars, log, detail, transportVars>>

ParseError ==
    /\ pc = "received"
    /\ EnvelopeErr(msg)
    /\ Return(HandledLocally(errorResponse(Nil, ParseErrorCode, "Parse error",
                                           NoData)),
              "none", FALSE)

\* InvalidRequest as it would be if the version error were built like the
\* parse error, with a nil id.
InvalidRequestWithoutId ==
    /\ pc = "received"
    /\ ~EnvelopeErr(msg)
    /\ JSONRPC(msg) # "2.0"
    /\ Return(HandledLocally(errorResponse(Nil, InvalidRequestCode,
                                           "Invalid Request", NoData)),
              "none", FALSE)

InvalidRequest ==
    /\ pc = "received"
    /\ ~EnvelopeErr(msg)
    /\ JSONRPC(msg) # "2.0"
    /\ Return(HandledLocally(errorResponse(ID(msg), InvalidRequestCode,
                                           "Invalid Request", NoData)),
              "none", FALSE)

Initialize ==
    /\ Routes("initialize")
    /\ Return(handleInitialize(ID(msg)), "initialize", TRUE)

Initialized ==
    /\ Routes("initialized")
    /\ Return(handleInitialized(ID(msg)), "initialized", TRUE)

NotificationsInitialized ==
    /\ Routes("notifications/initialized")
    /\ Return(handleInitialized(ID(msg)), "notifications/initialized", TRUE)

NotificationsCancelled ==
    /\ Routes("notifications/cancelled")
    /\ Return(HandledLocally(NoReply), "notifications/cancelled", TRUE)

ResourcesList ==
    /\ Routes("resources/list")
    /\ \E resp \in UpstreamResponses :
          ReturnAnswered(handleResourcesList(ID(msg), Params(msg), resp),
                         "resources/list", TRUE, [up |-> <<resp>>, det |-> <<>>])

ResourcesRead ==
    /\ Routes("resources/read")
    /\ Return(handleResourcesRead(ID(msg), Params(msg)), "resources/read", TRUE)

ToolsList ==
    /\ Routes("tools/list")
    /\ Return(handleToolsList(ID(msg)), "tools/list", TRUE)

ToolsCall ==
    /\ Routes("tools/call")
    /\ \E up \in [1..requestsAtMost(Params(msg)) -> UpstreamResponses],
          det \in detailChoices(Params(msg)) :
          ReturnAnswered(handleToolsCall(ID(msg), Params(msg), up, det),
                         "tools/call", TRUE, [up |-> up, det |-> det])

Ping ==
    /\ Routes("ping")
    /\ Return(handlePing(ID(msg)), "ping", TRUE)

\* UnknownMethod as it would be without the check for an id.
UnknownMethodAlwaysAnswers ==
    /\ pc = "received"
    /\ ~EnvelopeErr(msg)
    /\ JSONRPC(msg) = "2.0"
    /\ Method(msg) \notin KnownMethods
    /\ Return(HandledLocally(errorResponse(ID(msg), MethodNotFoundCode,
                                           "Method not found", NoData)),
              "default", TRUE)

\* The default case: an error for a request, nothing for a notification.
UnknownMethod ==
    /\ pc = "received"
    /\ ~EnvelopeErr(msg)
    /\ JSONRPC(msg) = "2.0"
    /\ Method(msg) \notin KnownMethods
    /\ Return(HandledLocally(
                IF ID(msg) # Nil
                THEN errorResponse(ID(msg), MethodNotFoundCode, "Method not found",
                                   NoData)
                ELSE NoReply),
              "default", TRUE)

HandleRequest ==
    \/ ParseError
    \/ InvalidRequest
    \/ Initialize
    \/ Initialized
    \/ NotificationsInitialized
    \/ NotificationsCancelled
    \/ ResourcesList
    \/ ResourcesRead
    \/ ToolsList
    \/ ToolsCall
    \/ Ping
    \/ UnknownMethod

\* The transport has dealt with what HandleRequest returned and reads on.
Respond ==
    /\ pc = "done"
    /\ pc' = "idle"
    /\ msg' = NoMessage
    /\ reply' = NoReply
    /\ routed' = "none"
    /\ calls' = <<>>
    /\ recorded' = <<>>
    /\ answers' = NoAnswers
    /\ UNCHANGED <<cacheVars, log, detail, transportVars>>

----------------------------------------------------------------------------
(* The transports (server package): HTTP with WebSocket upgrade, and       *)
(* stdio.  Each hands raw messages to HandleRequest and deals with what it *)
(* returns.  A text that the code takes apart by prefix is kept as its     *)
(* pieces: the path "/healthz" is <<"/health", "z">>, the header           *)
(* "Bearer abc" is <<"Bearer ", "abc">>.                                   *)

\* ServerSecret; "" when SERVER_SECRET is not set.
Secrets == {"", "s3cret"}

\* hex.EncodeToString of the HMAC-SHA256 of `message` under `key`, for the
\* keys and messages of the model.
hexHMAC(key, message) ==
    CASE key = "" /\ message = "teamcity-mcp" ->
            "6912b3147d4bd5a15e698a206332a48e22a50c0652fc5defbdb157b07558b59d"
      [] key = "" /\ message = "teamcity" ->
            "d84e6903b69d96ab85ef545cdb75351481d27aec693126d0ce4a66a883255c0b"
      [] key = "s3cret" /\ message = "teamcity-mcp" ->
            "65444f65783e627e7977cc7246ab058541110aa6c39a0073f29736ec9f7e7f6e"
      [] key = "s3cret" /\ message = "teamcity" ->
            "80e5c3f8ad73d70e9f01b6fd175f613c0b80121734c4fcdd119bd42ac40814ad"
      [] key = "guess" /\ message = "teamcity-mcp" ->
            "cac6b1d9458b3d81c6746894f8499a58f57b65f697cd3f7086f0ca43978cd452"
      [] key = "guess" /\ message = "teamcity" ->
            "db4dba7c4c53199dd8762df846afac29f1b0d27cb8f1ad63591bfab525579e74"

\* validateToken as it would be if the token were checked under the key of
\* the client's choice.
validateTokenAnyKey(token, secret) ==
    \E key \in {"", "s3cret", "guess"} : token = <<hexHMAC(key, "teamcity-mcp")>>

\* Server.validateToken
validateToken(token, secret) == token = <<hexHMAC(secret, "teamcity-mcp")>>

\* http.Error(w, text, status)
HttpError(text, status) == [status |-> status, body |-> <<text>>]

\* next.ServeHTTP(w, r)
ServeNext == [status |-> 0, body |-> <<>>]

\* Server.authMiddleware: the answer it writes, or ServeNext.
authMiddleware(r, secret) ==
    IF r.path[1] \in {"/health", "/ready", "/metrics"} THEN ServeNext
    ELSE IF r.authorization = <<>>
    THEN HttpError("Authorization header required", 401)
    ELSE IF r.authorization[1] # "Bearer "
    THEN HttpError("Bearer token required", 401)
    ELSE IF ~validateToken(Tail(r.authorization), secret)
    THEN HttpError("Invalid token", 401)
    ELSE ServeNext

\* The patterns startHTTP registers with the mux.
MuxPatterns == {<<"/mcp">>, <<"/health", "z">>, <<"/ready", "z">>, <<"/metrics">>}

\* json.Marshal of what HandleRequest returned; a nil interface is null.
Marshal(v) == IF v = NoReply THEN JNull ELSE v

\* The Authorization headers a client may send.
Authorizations ==
    {<<>>, <<"Basic ", "dXNlcjpwdw==">>, <<"Bearer ">>}
    \cup {<<scheme, hexHMAC(k, "teamcity-mcp")>> :
            scheme \in {"Bearer ", "bearer "}, k \in Secrets \cup {"guess"}}
    \cup {<<"Bearer ", hexHMAC(k, "teamcity")>> : k \in Secrets \cup {"guess"}}
    \cup {<<hexHMAC(k, "teamcity-mcp")>> : k \in Secrets}

Call(id, method, params) == Envelope(JStr("2.0"), id, JStr(method), params)

\* The JSON messages the transports carry.
TransportMessages ==
    {JArr(<<>>), Envelope(JStr("1.0"), JNum(1), JStr("ping"), JAbsent),
     Call(JAbsent, "invalid/method", JAbsent),
     Call(JNum(1), "resources/list", JObj([uri |-> JStr("teamcity://projects")])),
     Call(JNum(1), "resources/read", JObj([uri |-> JStr("teamcity://runtime")])),
     Call(JNum(1), "tools/call",
          JObj([name |-> JStr("get_current_time"),
                arguments |-> JObj([format |-> JStr("date")])]))}
    \cup {Call(JNum(1), m, JAbsent) :
            m \in {"initialize", "initialized", "notifications/initialized",
                   "notifications/cancelled", "tools/list", "ping",
                   "invalid/method"}}

\* What a client puts on stdin or into a WebSocket frame.
StreamItems ==
    {Call(JNum(1), "ping", JAbsent),
     Call(JNum(1), "notifications/initialized", JAbsent), NotJSON}

\* The peer closes the WebSocket.
CloseFrame == [t |-> "close", s |-> "", n |-> 0]

HttpRequest(path, method, upgrade, authorization, body) ==
    [path |-> path, method |-> method, upgrade |-> upgrade,
     authorization |-> authorization, body |-> body]

HttpRequests ==
    {HttpRequest(<<"/mcp">>, m, u, a, b) :
        m \in {"POST", "GET"}, u \in BOOLEAN, a \in Authorizations,
        b \in TransportMessages \cup {NotJSON}}
    \cup {HttpRequest(p, "GET", FALSE, a, NoMessage) :
            p \in (MuxPatterns \ {<<"/mcp">>}) \cup {<<"/metrics", "/x">>, <<"/other">>},
            a \in Authorizations}

NoServer == [transport |-> "none", secret |-> "", cancelled |-> FALSE,
             returned |-> FALSE]
NoRequest == HttpRequest(<<>>, "", FALSE, <<>>, NoMessage)
NoConn == [stage |-> "none", request |-> NoRequest, response |-> ServeNext]
NoStdio == [at |-> "off", in |-> <<>>, closed |-> FALSE, err |-> FALSE, sent |-> 0]
NothingWritten == [transport |-> "none", reply |-> NoReply, out |-> <<>>]

\* The transport is the one Start was given and Start has not returned.
Running(transport) == server.transport = transport /\ ~server.returned

\* A transport calls HandleRequest with the message m.
Hand(m) ==
    /\ pc = "idle"
    /\ pc' = "received"
    /\ msg' = m
    /\ UNCHANGED <<reply, routed, calls, recorded, answers>>

\* A transport has taken what HandleRequest returned and written `out`.
Wrote(transport, out) ==
    /\ pc = "done"
    /\ written' = [transport |-> transport, reply |-> reply, out |-> out]
    /\ pc' = "idle"
    /\ msg' = NoMessage
    /\ reply' = NoReply
    /\ routed' = "none"
    /\ calls' = <<>>
    /\ recorded' = <<>>
    /\ answers' = NoAnswers

\* Server.Start: main passes the transport flag and the loaded configuration.
Start ==
    /\ server.transport = "none"
    /\ \E transport \in {"http", "stdio"}, secret \in Secrets :
          /\ server' = [transport |-> transport, secret |-> secret,
                        cancelled |-> FALSE, returned |-> FALSE]
          /\ stdio' = IF transport = "stdio"
                      THEN [NoStdio EXCEPT !.at = "select"] ELSE NoStdio
    /\ UNCHANGED <<dispatcherVars, cacheVars, log, detail, conn, written>>

\* main: SIGINT or SIGTERM cancels the context of the server.
Cancel ==
    /\ server.transport # "none"
    /\ ~server.returned
    /\ ~server.cancelled
    /\ server' = [server EXCEPT !.cancelled = TRUE]
    /\ UNCHANGED <<dispatcherVars, cacheVars, log, detail, conn, stdio, written>>

\* An HTTP request arrives at the server.
HttpArrives ==
    /\ Running("http")
    /\ conn.stage = "none"
    /\ pc = "idle"
    /\ \E r \in HttpRequests :
          conn' = [stage |-> "auth", request |-> r, response |-> ServeNext]
    /\ written' = NothingWritten
    /\ UNCHANGED <<dispatcherVars, cacheVars, log, detail, server, stdio>>

\* The handler writes its answer.
Answer(response) == conn' = [conn EXCEPT !.stage = "answered", !.response = response]

\* The mux has routed the request to the handler registered for `path`.
Routed(path) == Running("http") /\ conn.stage = "mux" /\ conn.request.path = path

\* Server.authMiddleware
AuthMiddleware ==
    /\ Running("http")
    /\ conn.stage = "auth"
    /\ LET a == authMiddleware(conn.request, server.secret)
       IN  IF a = ServeNext
           THEN conn' = [conn EXCEPT !.stage = "mux"]
           ELSE Answer(a)
    /\ UNCHANGED <<dispatcherVars, cacheVars, log, detail, server, stdio, written>>

\* health.LivenessHandler
LivenessHandler ==
    /\ Routed(<<"/health", "z">>)
    /\ Answer([status |-> 200, body |-> <<"alive">>])
    /\ UNCHANGED <<dispatcherVars, cacheVars, log, detail, server, stdio, written>>

\* health.ReadinessHandler: 503 when TeamCity cannot be reached.
ReadinessHandler ==
    /\ Routed(<<"/ready", "z">>)
    /\ \E status \in {200, 503} : Answer([status |-> status, body |-> <<"ready">>])
    /\ UNCHANGED <<dispatcherVars, cacheVars, log, detail, server, stdio, written>>

\* Server.handleMetrics
handleMetrics ==
    /\ Routed(<<"/metrics">>)
    /\ Answer([status |-> 200, body |-> <<"# Metrics endpoint placeholder\n">>])
    /\ UNCHANGED <<dispatcherVars, cacheVars, log, detail, server, stdio, written>>

\* The mux finds no pattern for the path.
MuxNotFound ==
    /\ Running("http")
    /\ conn.stage = "mux"
    /\ conn.request.path \notin MuxPatterns
    /\ Answer(HttpError("404 page not found", 404))
    /\ UNCHANGED <<dispatcherVars, cacheVars, log, detail, server, stdio, written>>

\* Server.handleMCP up to the call of HandleRequest.
handleMCP ==
    /\ Routed(<<"/mcp">>)
    /\ ~conn.request.upgrade
    /\ IF conn.request.method # "POST"
       THEN Answer(HttpError("Method not allowed", 405)) /\ UNCHANGED dispatcherVars
       ELSE IF conn.request.body = NotJSON
       THEN Answer(HttpError("Invalid JSON", 400)) /\ UNCHANGED dispatcherVars
       ELSE conn' = [conn EXCEPT !.stage = "dispatched"] /\ Hand(conn.request.body)
    /\ UNCHANGED <<cacheVars, log, detail, server, stdio, written>>

\* Server.handleMCP after HandleRequest: the response is encoded into the
\* body.
handleMCPEncode ==
    /\ Running("http")
    /\ conn.stage = "dispatched"
    /\ Answer([status |-> 200, body |-> <<Marshal(reply)>>])
    /\ Wrote("http", <<Marshal(reply)>>)
    /\ UNCHANGED <<cacheVars, log, detail, server, stdio>>

\* The client has the answer; the exchange is over.
HttpCompleted ==
    /\ Running("http")
    /\ conn.stage = "answered"
    /\ conn' = NoConn
    /\ UNCHANGED <<dispatcherVars, cacheVars, log, detail, server, stdio, written>>

\* Server.handleWebSocket: the upgrade (refused for a method other than
\* GET).
handleWebSocket ==
    /\ Routed(<<"/mcp">>)
    /\ conn.request.upgrade
    /\ IF conn.request.method = "GET"
       THEN conn' = [conn EXCEPT !.stage = "websocket"]
       ELSE Answer(HttpError("websocket: request method is not GET", 405))
    /\ UNCHANGED <<dispatcherVars, cacheVars, log, detail, server, stdio, written>>

\* The loop of handleWebSocket reads a frame: a read error (a close, or
\* bytes that are not JSON) ends the loop and the connection.
WebSocketRead ==
    /\ Running("http")
    /\ conn.stage = "websocket"
    /\ \E frame \in StreamItems \cup {CloseFrame} :
          IF frame \in {CloseFrame, NotJSON}
          THEN conn' = NoConn /\ UNCHANGED dispatcherVars
          ELSE conn' = [conn EXCEPT !.stage = "websocket handling"] /\ Hand(frame)
    /\ UNCHANGED <<cacheVars, log, detail, server, stdio, written>>

\* The loop of handleWebSocket after HandleRequest: a frame is written if
\* the response is not nil.
WebSocketWrite ==
    /\ Running("http")
    /\ conn.stage = "websocket handling"
    /\ conn' = [conn EXCEPT !.stage = "websocket"]
    /\ Wrote("websocket", IF reply # NoReply THEN <<Marshal(reply)>> ELSE <<>>)
    /\ UNCHANGED <<cacheVars, log, detail, server, stdio>>

\* startHTTP: the context is done, the server shuts down once the exchange
\* in progress is over, and startHTTP returns.
HttpShutdown ==
    /\ Running("http")
    /\ server.cancelled
    /\ conn.stage \in {"none", "websocket"}
    /\ server' = [server EXCEPT !.returned = TRUE]
    /\ UNCHANGED <<dispatcherVars, cacheVars, log, detail, conn, stdio, written>>

\* A client writes a message to stdin.
StdinWrite ==
    /\ Running("stdio")
    /\ ~stdio.closed
    /\ stdio.sent < MaxInput
    /\ \E item \in StreamItems :
          stdio' = [stdio EXCEPT !.in = Append(@, item), !.sent = @ + 1]
    /\ UNCHANGED <<dispatcherVars, cacheVars, log, detail, server, conn, written>>

\* The client closes stdin.
StdinClose ==
    /\ Running("stdio")
    /\ ~stdio.closed
    /\ stdio' = [stdio EXCEPT !.closed = TRUE]
    /\ UNCHANGED <<dispatcherVars, cacheVars, log, detail, server, conn, written>>

\* startSTDIO, the select at the top of the loop: a done context returns,
\* otherwise the default case goes on to decode.
StdioSelect ==
    /\ Running("stdio")
    /\ stdio.at = "select"
    /\ IF server.cancelled
       THEN /\ server' = [server EXCEPT !.returned = TRUE]
            /\ stdio' = [stdio EXCEPT !.at = "off"]
       ELSE /\ stdio' = [stdio EXCEPT !.at = "decode"]
            /\ UNCHANGED server
    /\ UNCHANGED <<dispatcherVars, cacheVars, log, detail, conn, written>>

\* startSTDIO, decoder.Decode(&req).  The json.Decoder keeps a syntax error
\* and returns it from every later Decode without reading; with nothing to
\* read it waits for stdin, and at the end of stdin it returns io.EOF.
StdioDecode ==
    /\ Running("stdio")
    /\ stdio.at = "decode"
    /\ stdio.err \/ stdio.in # <<>> \/ stdio.closed
    /\ IF stdio.err
       THEN /\ stdio' = [stdio EXCEPT !.at = "select"]
            /\ UNCHANGED <<server, dispatcherVars>>
       ELSE IF stdio.in # <<>> /\ Head(stdio.in) = NotJSON
       THEN /\ stdio' = [stdio EXCEPT !.at = "select", !.err = TRUE, !.in = Tail(@)]
            /\ UNCHANGED <<server, dispatcherVars>>
       ELSE IF stdio.in # <<>>
       THEN /\ stdio' = [stdio EXCEPT !.at = "handling", !.in = Tail(@)]
            /\ Hand(Head(stdio.in))
            /\ UNCHANGED server
       ELSE /\ server' = [server EXCEPT !.returned = TRUE]
            /\ stdio' = [stdio EXCEPT !.at = "off"]
            /\ UNCHANGED dispatcherVars
    /\ UNCHANGED <<cacheVars, log, detail, conn, written>>

\* startSTDIO after HandleRequest: the response is encoded to stdout if it
\* is not nil.
StdioEncode ==
    /\ Running("stdio")
    /\ stdio.at = "handling"
    /\ stdio' = [stdio EXCEPT !.at = "select"]
    /\ Wrote("stdio", IF reply # NoReply THEN <<Marshal(reply)>> ELSE <<>>)
    /\ UNCHANGED <<cacheVars, log, detail, server, conn>>

Init ==
    /\ pc = "idle"
    /\ msg = NoMessage
    /\ reply = NoReply
    /\ routed = "none"
    /\ calls = <<>>
    /\ recorded = <<>>
    /\ answers = NoAnswers
    /\ cache = [k \in Keys |-> NoItem]
    /\ mu = Unlocked
    /\ now = 0
    /\ proc = [p \in Clients \cup {Cleaner} |-> Idle]
    /\ lastSet = [k \in Keys |-> NoSet]
    /\ log = NoLog
    /\ detail = NoDetail
    /\ server = NoServer
    /\ conn = NoConn
    /\ stdio = NoStdio
    /\ written = NothingWritten

\* The dispatcher.  The handler holds the cache but calls none of its
\* operations, so the cache stays as New built it.
Next == Receive \/ HandleRequest \/ Respond

Spec == Init /\ [][Next]_vars

\* The cache under concurrent callers.
CacheSpec == Init /\ [][CacheNext]_vars

\* FetchBuildLog on the plain-text logs it may read.
LogSpec == Init /\ [][LogNext]_vars

\* matchesDetailedCriteria on the build configurations it may be given.
CriteriaSpec == Init /\ [][CriteriaNext]_vars

\* The server behind its transports.
TransportNext ==
    \/ Start \/ Cancel
    \/ HttpArrives \/ AuthMiddleware
    \/ LivenessHandler \/ ReadinessHandler \/ handleMetrics \/ MuxNotFound
    \/ handleMCP \/ handleMCPEncode \/ HttpCompleted
    \/ handleWebSocket \/ WebSocketRead \/ WebSocketWrite
    \/ HttpShutdown
    \/ StdinWrite \/ StdinClose
    \/ StdioSelect \/ StdioDecode \/ StdioEncode
    \/ HandleRequest

TransportSpec == Init /\ [][TransportNext]_vars

\* The stdio loop and the dispatcher keep running while they can; nothing
\* obliges a client to write to stdin or to close it.
TransportLiveSpec ==
    /\ TransportSpec
    /\ WF_vars(StdioSelect) /\ WF_vars(StdioDecode) /\ WF_vars(StdioEncode)
    /\ WF_vars(HandleRequest)

----------------------------------------------------------------------------
(* Properties of the dispatcher.  They are stated on the message itself    *)
(* (the JSON it spells), not on the decoded fields.                        *)

Done == pc = "done"

\* The member of the message is a JSON string (resp. may be decoded into a
\* Go string field).
IsText(v) == v.t = "string"
FitsString(v) == v.t = "absent" \/ v.t = "null" \/ v.t = "string"

\* The message decodes into the JSON-RPC envelope.
Decodable ==
    /\ msg.t = "object" \/ msg.t = "null"
    /\ FitsString(Member(msg, "jsonrpc"))
    /\ FitsString(Member(msg, "method"))

\* The message is a decodable JSON-RPC 2.0 message.
Version2 ==
    /\ Decodable
    /\ IsText(Member(msg, "jsonrpc"))
    /\ Member(msg, "jsonrpc").s = "2.0"

\* The message carries an id other than null.
HasId == Member(msg, "id").t \notin {"absent", "null"}

\* The method of the message ("" when it has none).
MethodName == IF IsText(Member(msg, "method")) THEN Member(msg, "method").s ELSE ""

\* The reply is the JSON-RPC error `code`, and nothing else.
ErrorReply(code) ==
    /\ IsError(reply)
    /\ ~IsSuccess(reply)
    /\ reply.error.code = code

\* The reply carries the id of the message (null when it has none).
EchoesId == reply.id = IF HasId THEN Member(msg, "id") ELSE Nil

\* C1: a message that is not well-formed JSON, or that cannot be decoded
\* into the envelope, is answered with error -32700 and id null; the method
\* switch is not reached and no upstream request is issued.
ParseErrorReply ==
    (Done /\ ~Decodable)
        => /\ ErrorReply(-32700)
           /\ reply.error.message = "Parse error"
           /\ reply.id = Nil
           /\ routed = "none"
           /\ calls = <<>>

\* C1 happens: an object whose method is a number and which carries an id
\* has been answered with id null.
ParseErrorReplyWitness ==
    /\ Done
    /\ msg.t = "object"
    /\ Member(msg, "method").t = "number"
    /\ Member(msg, "jsonrpc") = JStr("2.0")
    /\ Member(msg, "id") = JNum(1)
    /\ IsError(reply)
    /\ reply.id = Nil

\* C2: a decodable message whose jsonrpc is not "2.0" is answered with error
\* -32600 carrying the id of the message, whatever its method; the method
\* switch is not reached and nothing is executed.
InvalidRequestReply ==
    (Done /\ Decodable /\ ~Version2)
        => /\ ErrorReply(-32600)
           /\ reply.error.message = "Invalid Request"
           /\ EchoesId
           /\ routed = "none"
           /\ calls = <<>>
           /\ recorded = <<>>

\* C2 happens: a tools/call for a real tool under jsonrpc "1.0" has been
\* answered with its own id.
InvalidRequestReplyWitness ==
    /\ Done
    /\ Member(msg, "jsonrpc") = JStr("1.0")
    /\ MethodName = "tools/call"
    /\ Member(Member(msg, "params"), "name") = JStr("cancel_build")
    /\ Member(msg, "id") = JStr("req-7")
    /\ IsError(reply)
    /\ reply.id = JStr("req-7")

\* C3: a 2.0 message whose method is not a known one is answered with error
\* -32601 and its id when it has a non-null id, and not at all otherwise.
UnknownMethodReply ==
    (Done /\ Version2 /\ MethodName \notin KnownMethods)
        => IF HasId
           THEN /\ ErrorReply(-32601)
                /\ reply.error.message = "Method not found"
                /\ EchoesId
           ELSE reply = NoReply

\* C3 happens: an unknown method with id 1 has been answered with an error.
UnknownMethodReplyWitness ==
    /\ Done
    /\ Version2
    /\ MethodName = "invalid/method"
    /\ Member(msg, "id") = JNum(1)
    /\ IsError(reply)

\* C4: a 2.0 message without an id is a notification and gets no reply,
\* whatever its method and whether its handler succeeds or fails.
NotificationsGetNoReply ==
    (Done /\ Version2 /\ Member(msg, "id").t = "absent") => reply = NoReply

\* C5: the notification-only methods get no reply, with or without an id.
NotificationMethodsGetNoReply ==
    (Done /\ Version2
          /\ MethodName \in {"initialized", "notifications/initialized",
                             "notifications/cancelled"})
        => /\ reply = NoReply
           /\ calls = <<>>

\* C5 happens: "initialized" sent with id 1 has been handled, without a reply.
NotificationMethodsGetNoReplyWitness ==
    /\ Done
    /\ Version2
    /\ MethodName = "initialized"
    /\ Member(msg, "id") = JNum(1)
    /\ routed = "initialized"
    /\ reply = NoReply

\* C6: every reply has jsonrpc "2.0", carries the id of the message it
\* answers (null for a parse error or a message without id) and has exactly
\* one of result and error.
ReplyWellFormed ==
    (Done /\ IsReply(reply))
        => /\ reply.jsonrpc = "2.0"
           /\ reply.id = IF Decodable /\ HasId THEN Member(msg, "id") ELSE Nil
           /\ \/ DOMAIN reply = {"jsonrpc", "id", "result"}
              \/ DOMAIN reply = {"jsonrpc", "id", "error"}

\* C6 happens: a tools/call that issued two upstream requests has been
\* answered with an error carrying the id of the call.
ReplyWellFormedWitness ==
    /\ Done
    /\ routed = "tools/call"
    /\ Len(calls) = 2
    /\ Member(msg, "id") = JStr("req-7")
    /\ IsError(reply)
    /\ reply.id = JStr("req-7")

\* C7: an error of the tool operation behind tools/call (an unknown tool
\* name included) is answered with error -32603, message "Internal error",
\* and the error's message as data.
ToolErrorIsInternalError ==
    (Done /\ routed = "tools/call" /\ ~IsSuccess(reply)
          /\ ~ErrorReply(InvalidParamsCode))
        => /\ ErrorReply(-32603)
           /\ reply.error.message = "Internal error"
           /\ "data" \in DOMAIN reply.error

\* C8: resources/read whose params are missing, null, not an object or have
\* no uri is answered with error -32602, and no resource is read.
ReadWithoutUriIsInvalidParams ==
    (Done /\ Version2 /\ MethodName = "resources/read"
          /\ ~IsText(Member(Member(msg, "params"), "uri")))
        => /\ ErrorReply(-32602)
           /\ recorded = <<RecordMCPRequest("resources/read", "success")>>

\* C9: resources/list without a uri returns the static catalog and issues no
\* upstream request; with uri teamcity://builds it issues exactly one, GET
\* /builds with locator count:100.
ResourcesListRequests ==
    (Done /\ Version2 /\ MethodName = "resources/list")
        => LET params == Member(msg, "params")
               uri == Member(params, "uri")
           IN  /\ (\/ params.t \in {"absent", "null"}
                   \/ params.t = "object" /\ uri.t \in {"absent", "null"}
                   \/ params.t = "object" /\ uri = JStr(""))
                    => /\ IsSuccess(reply)
                       /\ reply.result.resources = ResourceCatalog
                       /\ calls = <<>>
               /\ (params.t = "object" /\ uri = JStr("teamcity://builds"))
                    => calls = <<[method |-> "GET",
                                  endpoint |-> <<"/builds?locator=count:100">>,
                                  hasBody |-> FALSE]>>

\* C9 happens: resources/list for teamcity://builds has returned the two
\* builds the upstream answered with, after one request.
ResourcesListRequestsWitness ==
    /\ Done
    /\ Version2
    /\ MethodName = "resources/list"
    /\ Member(Member(msg, "params"), "uri") = JStr("teamcity://builds")
    /\ Len(calls) = 1
    /\ IsSuccess(reply)
    /\ Len(reply.result.resources) = 2

\* C10: resources/read of a uri whose prefix is none of the recognized
\* collections is answered with an error, never with a result.
UnrecognizedUriIsRejected ==
    (Done /\ Version2 /\ MethodName = "resources/read"
          /\ Member(Member(msg, "params"), "uri")
                \in {JStr("teamcity://unknown/1"), JStr("http://example.com/x")})
        => IsError(reply)

----------------------------------------------------------------------------
(* Properties of the cache and of its use by the dispatcher.               *)

\* The uri a resources/list or resources/read message asks for.
RequestedUri ==
    IF IsText(Member(Member(msg, "params"), "uri"))
    THEN Member(Member(msg, "params"), "uri").s ELSE ""

\* C11: resource requests go through the TTL cache: once a resource request
\* for a uri has fetched its answer upstream and replied with it, the cache
\* holds an item for that uri, from which the later requests for the uri in
\* the TTL window are answered without an upstream call.
ResourceRequestsAreCached ==
    (/\ Done
     /\ routed \in {"resources/list", "resources/read"}
     /\ RequestedUri \in Keys
     /\ calls # <<>>
     /\ IsSuccess(reply))
        => cache[RequestedUri].present

\* What Get(key) is to return at time t, by the history of the key.
Expected(key, t) ==
    IF lastSet[key].set /\ t <= lastSet[key].at + TTL
    THEN [ok |-> TRUE, value |-> lastSet[key].value]
    ELSE [ok |-> FALSE, value |-> ""]

\* A Get that has run its body and not yet returned.
GetDone(p) == proc[p].pc = "done" /\ proc[p].op = "Get"

\* C12: for any interleaving of Set, Get, Delete, Clear, the cleanup pass and
\* the passage of time, Get(k) returns (v, true) exactly when the most
\* recent Set on k stored v, no Delete(k) or Clear followed it and the time
\* is not later than the time of that Set plus the TTL; otherwise it returns
\* not-found.
GetReturnsLatestUnexpired ==
    \A p \in Clients :
        GetDone(p) =>
            /\ proc[p].res.ok = Expected(proc[p].key, proc[p].at).ok
            /\ proc[p].res.value = Expected(proc[p].key, proc[p].at).value

\* A Get returned not-found for an item that was set, has expired and is
\* still in the map (no cleanup pass has removed it), and another Get found
\* its item.
GetReturnsLatestUnexpiredWitness ==
    /\ \E p \in Clients :
          /\ GetDone(p)
          /\ ~proc[p].res.ok
          /\ cache[proc[p].key].present
          /\ lastSet[proc[p].key].set
    /\ \E p \in Clients : GetDone(p) /\ proc[p].res.ok

\* Every item in the map is the item of one Set: its value and its
\* expiration are those of the most recent Set on its key.
WholeItems ==
    \A k \in Keys :
        cache[k].present =>
            /\ lastSet[k].set
            /\ cache[k] = cacheItem(lastSet[k].value, lastSet[k].at + TTL)

\* A writer holds the mutex alone.
WriterAlone == mu.writer # "none" => mu.readers = {}

\* A Get waiting for the read lock can take it whenever no writer holds the
\* mutex or waits for it, whichever readers hold it.
ReadersShare ==
    \A p \in Clients :
        (/\ proc[p].pc = "waiting"
         /\ proc[p].op = "Get"
         /\ mu.writer = "none"
         /\ mu.pending = {})
            => ENABLED RLock(p)

\* The body of a Set or a Delete leaves the other keys as they are.
OtherKeysUntouched ==
    \A p \in Clients :
        (/\ proc[p].pc = "locked"
         /\ proc[p].op \in {"Set", "Delete"}
         /\ proc'[p].pc = "done")
            => \A k \in Keys \ {proc[p].key} : cache'[k] = cache[k]

\* C13: under concurrent readers, writers and the cleanup goroutine, no item
\* is torn (the value of one Set with the expiration of another), a Set or a
\* Delete on one key never changes what is stored for another key, and a Get
\* is never kept waiting by another Get.
CacheConcurrency ==
    /\ [](WholeItems /\ WriterAlone /\ ReadersShare)
    /\ [][OtherKeysUntouched]_vars

\* Two Gets hold the read lock together while both keys hold items of
\* different Sets.
CacheConcurrencyWitness ==
    /\ mu.readers = Clients
    /\ \A k \in Keys : cache[k].present
    /\ \E k1, k2 \in Keys : cache[k1].value # cache[k2].value

----------------------------------------------------------------------------
(* Properties of the tools.                                                *)

\* The name and the arguments a tools/call message carries.
ToolName ==
    IF IsText(Member(Member(msg, "params"), "name"))
    THEN Member(Member(msg, "params"), "name").s ELSE ""
ToolArgs == Member(Member(msg, "params"), "arguments")

\* HandleRequest has returned from a tools/call for the tool `name`.
ToolDone(name) == Done /\ routed = "tools/call" /\ ToolName = name

\* The argument k of the call is a JSON string, resp. is no text at all
\* (absent, null or the empty string).
ArgIsText(k) == IsText(Member(ToolArgs, k))
ArgText(k) == IF ArgIsText(k) THEN Member(ToolArgs, k).s ELSE ""
ArgIsEmpty(k) ==
    \/ Member(ToolArgs, k).t \in {"absent", "null"}
    \/ ArgIsText(k) /\ ArgText(k) = ""

\* The strings that spell a decimal integer, among those the calls carry.
NumericText == {"42", "7", "-7"}

\* The reply is the error -32603 whose data begins with `piece`, and no
\* upstream request was issued.
RejectedBeforeUpstream(piece) ==
    /\ ErrorReply(InternalErrorCode)
    /\ "data" \in DOMAIN reply.error
    /\ Head(reply.error.data) = piece
    /\ calls = <<>>

RequiredArguments(name) ==
    CASE name = "trigger_build" -> {"buildTypeId"}
      [] name = "pin_build" -> {"buildId", "pin"}
      [] name = "download_artifact" -> {"buildId", "artifactPath"}
      [] name \in {"cancel_build", "set_build_tag", "fetch_build_log"} ->
            {"buildId"}
      [] OTHER -> {}

\* C15: a tools/call that omits an argument its tool declares required fails
\* with an error and issues no upstream request (no build is queued, no pin
\* is removed).
RequiredArgumentsEnforced ==
    \A name \in ToolNames :
        (/\ ToolDone(name)
         /\ ToolArgs.t = "object"
         /\ \E k \in RequiredArguments(name) : Member(ToolArgs, k).t = "absent")
            => IsError(reply) /\ calls = <<>>

\* The tags a set_build_tag call asks to add and to remove.
ArgList(k) ==
    IF Member(ToolArgs, k).t = "array" THEN Member(ToolArgs, k).items ELSE <<>>

\* The tag requests a set_build_tag call plans: one POST per tag to add, in
\* order, then one DELETE per tag to remove, in order.
PlannedTagCalls ==
    [i \in 1..Len(ArgList("tags")) |->
        [method |-> "POST", tag |-> ArgList("tags")[i]]]
    \o [i \in 1..Len(ArgList("removeTags")) |->
        [method |-> "DELETE", tag |-> ArgList("removeTags")[i]]]

\* The tag requests issued after the build lookup, read off the upstream
\* requests: the tag is the name in the body of a POST and the last piece
\* of the path of a DELETE.
TagCallOf(req) ==
    IF req.method = "POST"
    THEN [method |-> "POST", tag |-> req.body.name]
    ELSE [method |-> req.method, tag |-> req.endpoint[Len(req.endpoint)]]
IssuedTagCalls == [i \in 1..(Len(calls) - 1) |-> TagCallOf(calls[i + 1])]

\* The error of the reply is that of the tag request `c`.
TagErrorOf(c) ==
    /\ IsError(reply)
    /\ "data" \in DOMAIN reply.error
    /\ Len(reply.error.data) >= 4
    /\ reply.error.data[1] = "failed to "
    /\ reply.error.data[2] = (IF c.method = "POST" THEN "add" ELSE "remove")
    /\ reply.error.data[3] = " tag "
    /\ reply.error.data[4] = c.tag

\* C16: set_build_tag issues, after the build lookup, one upstream call per
\* tag to add, in order, and then one per tag to remove, in order; when one
\* of these calls fails the operation returns that tag's error, no later tag
\* call is issued and no call undoes the tags already applied.
TagCallsStopAtFirstFailure ==
    (ToolDone("set_build_tag") /\ calls # <<>>)
        => /\ calls[1] = Request("GET", <<"/builds/id:", ArgText("buildId")>>, FALSE)
           /\ Len(IssuedTagCalls) <= Len(PlannedTagCalls)
           /\ \A i \in 1..Len(IssuedTagCalls) :
                 IssuedTagCalls[i] = PlannedTagCalls[i]
           /\ IsSuccess(reply) => IssuedTagCalls = PlannedTagCalls
           /\ (IsError(reply) /\ IssuedTagCalls # <<>>)
                 => TagErrorOf(IssuedTagCalls[Len(IssuedTagCalls)])
           /\ (IsError(reply) /\ IssuedTagCalls = <<>>)
                 => Head(reply.error.data)
                       \in {"build not found: ", "failed to parse build: "}

\* The second of three planned tag calls failed: its error is returned and
\* the third was never issued.
TagCallsStopAtFirstFailureWitness ==
    /\ ToolDone("set_build_tag")
    /\ Len(PlannedTagCalls) = 3
    /\ Len(IssuedTagCalls) = 2
    /\ TagErrorOf(PlannedTagCalls[2])

\* The reply reports the failed removal of a tag.
RemovalFailed ==
    /\ ToolDone("set_build_tag")
    /\ IsError(reply)
    /\ "data" \in DOMAIN reply.error
    /\ Len(reply.error.data) >= 4
    /\ reply.error.data[2] = "remove"

\* The removals issued, in order.
IssuedRemovals ==
    LET at == {i \in 1..Len(IssuedTagCalls) : IssuedTagCalls[i].method = "DELETE"}
    IN  [j \in 1..Cardinality(at) |->
            IssuedTagCalls[CHOOSE i \in at :
                              Cardinality({h \in at : h <= i}) = j].tag]

\* C17 as stated: in set_build_tag, when the removal of one tag fails, the
\* failure is reported and the removals of the remaining tags are still
\* attempted.
RemovalFailureDoesNotAbort ==
    RemovalFailed => IssuedRemovals = ArgList("removeTags")

\* C17: in set_build_tag, when the removal of one tag fails, the operation
\* ends with the error of that tag: the removals issued are those up to and
\* including the failed one, and the remaining tags are not attempted.
RemovalFailureAborts ==
    RemovalFailed
        => /\ IssuedRemovals # <<>>
           /\ Len(IssuedRemovals) <= Len(ArgList("removeTags"))
           /\ \A j \in 1..Len(IssuedRemovals) :
                 IssuedRemovals[j] = ArgList("removeTags")[j]
           /\ reply.error.data[4] = IssuedRemovals[Len(IssuedRemovals)]

\* The first of two removals failed and the second was not attempted.
RemovalFailureAbortsWitness ==
    /\ RemovalFailed
    /\ Len(ArgList("removeTags")) = 2
    /\ IssuedRemovals = <<ArgList("removeTags")[1]>>

\* The filters of search_builds that are texts and that are flags, each
\* with the key of its locator clause.
TextFilters ==
    [buildTypeId |-> "buildType:", status |-> "status:", state |-> "state:",
     branch |-> "branch:", agent |-> "agent:", user |-> "user:",
     sinceBuild |-> "sinceBuild:", sinceDate |-> "sinceDate:",
     untilDate |-> "untilDate:"]
FlagFilters == [personal |-> "personal:", pinned |-> "pinned:"]

\* The endpoint of the one request of a search, and the clauses that follow
\* its count: the endpoint is /builds ?locator= count: N and then "," key
\* value for every clause.
SearchEndpoint == calls[1].endpoint
LocatorClauses ==
    [i \in 1..((Len(SearchEndpoint) - 4) \div 3) |->
        [sep |-> SearchEndpoint[3 * i + 2], key |-> SearchEndpoint[3 * i + 3],
         value |-> SearchEndpoint[3 * i + 4]]]
ClausesWithKey(key) ==
    {i \in 1..Len(LocatorClauses) : LocatorClauses[i].key = key}

\* The count the call asks for (0 when it gives none).
ArgCount ==
    IF Member(ToolArgs, "count").t = "number" THEN Member(ToolArgs, "count").n
    ELSE 0

\* The text of a successful tool reply.
ReplyText == reply.result.content[1].text

PassesPattern(line) ==
    LET p == StringField(Member(log.args, "filterPattern"), "")
    IN  \/ p = ""
        \/ Compiles(p) /\ p \in line.regex
        \/ ~Compiles(p) /\ p \in line.literal
PassesSeverity(line) ==
    LET s == StringField(Member(log.args, "severity"), "")
    IN  CASE s = "" -> TRUE
          [] s \in {"error", "ERROR"} -> line.lower \cap errorPatterns # {}
          [] s \in {"warning", "Warning"} -> line.lower \cap warningPatterns # {}
          [] s = "info" ->
                /\ line.lower \cap (errorPatterns \cup warningPatterns) = {}
                /\ ~line.blank
PassingLines ==
    SelectSeq(SelectSeq(log.lines, PassesPattern), PassesSeverity)

\* The last n (resp. first n) of a sequence, all of it when n is not given,
\* not positive or not smaller than its length.
KeepLast(lines, v) ==
    IF v.t = "number" /\ v.n > 0 /\ v.n < Len(lines)
    THEN [i \in 1..v.n |-> lines[Len(lines) - v.n + i]] ELSE lines
KeepFirst(lines, v) ==
    IF v.t = "number" /\ v.n > 0 /\ v.n < Len(lines)
    THEN [i \in 1..v.n |-> lines[i]] ELSE lines

\* The lines shown are the first maxLines of the last tailLines of the
\* lines that pass the severity filter among those that pass the pattern
\* filter, in the order of the log.
LogLinesShown ==
    log.pc = "reported"
        => log.report.shown =
              KeepFirst(KeepLast(PassingLines, Member(log.args, "tailLines")),
                        Member(log.args, "maxLines"))

\* C19: fetch_build_log applies its filters in a fixed order (pattern,
\* severity, tail, cap) and its summary reports the total line count, the
\* count after pattern and severity filtering, and the count shown.
LogPipelineAndSummary ==
    log.pc = "reported"
        => /\ LogLinesShown
           /\ log.report.total = Len(log.lines)
           /\ log.report.hasFiltered
                 => log.report.filtered = Len(PassingLines)
           /\ log.report.showing = Len(log.report.shown)

----------------------------------------------------------------------------
(* Detailed filters of search_build_configurations.                        *)

\* The detailed filter k is supplied in the request under examination.
Supplied(k) == Str(detail.args, k) # ""

\* Where each detailed filter looks: the collection and the field.
FilterTargets ==
    {[filter |-> "parameterName", list |-> "parameters", field |-> "name"],
     [filter |-> "parameterValue", list |-> "parameters", field |-> "value"],
     [filter |-> "stepType", list |-> "steps", field |-> "type"],
     [filter |-> "stepName", list |-> "steps", field |-> "name"],
     [filter |-> "vcsType", list |-> "vcsRoots", field |-> "vcsName"]}

\* Element i of its collection matches the filter of target f.
ElementMatches(f, i) ==
    containsFold(detail.config[f.list][i][f.field], Str(detail.args, f.filter))

\* The filter of target f matches at least one element of its collection.
MatchesSomeElement(f) ==
    \E i \in 1..Len(detail.config[f.list]) : ElementMatches(f, i)

\* The supplied filters on the given collection match on one element of it.
MatchTogether(list) ==
    LET supplied == {f \in FilterTargets : f.list = list /\ Supplied(f.filter)}
    IN  supplied # {}
            => \E i \in 1..Len(detail.config[list]) :
                  \A f \in supplied : ElementMatches(f, i)

\* C20: a build configuration is retained by the detailed filters exactly
\* when every supplied filter matches at least one element of its
\* collection, each filter on its own.
RetainedWhenEachFilterMatches ==
    detail.pc = "matched"
        => (detail.retained
                <=> \A f \in FilterTargets : Supplied(f.filter) => MatchesSomeElement(f))

\* C20, amended: a build configuration is retained exactly when one
\* parameter matches the supplied ones of parameterName and parameterValue,
\* one step matches the supplied ones of stepType and stepName, and one VCS
\* root matches vcsType if supplied.
RetainedWhenFiltersMatchTogether ==
    detail.pc = "matched"
        => (detail.retained
                <=> \A list \in {"parameters", "steps", "vcsRoots"} : MatchTogether(list))

\* C20: a configuration whose parameters match parameterName and
\* parameterValue, but no one parameter both, has been dropped.
RetainedWhenFiltersMatchTogetherWitness ==
    /\ detail.pc = "matched"
    /\ Supplied("parameterName") /\ Supplied("parameterValue")
    /\ \A f \in FilterTargets : Supplied(f.filter) => MatchesSomeElement(f)
    /\ ~detail.retained

----------------------------------------------------------------------------
(* The two phases of search_build_configurations.                          *)

\* The arguments of the search decode into its request struct.
SearchArgumentsDecode ==
    /\ ToolArgs.t \in {"object", "null"}
    /\ \A k \in {"projectId", "name"} \cup DetailedFilters :
          FitsString(Member(ToolArgs, k))
    /\ \A k \in {"enabled", "paused", "template", "includeDetails"} :
          Member(ToolArgs, k).t \in {"absent", "null", "bool"}
    /\ Member(ToolArgs, "count").t \in {"absent", "null", "number"}

\* search_build_configurations has returned, its arguments decoded and the
\* upstream answered phase 1 with a list of configurations.
SearchedConfigurations ==
    /\ ToolDone("search_build_configurations")
    /\ SearchArgumentsDecode
    /\ answers.up[1].status = 200
    /\ answers.up[1].body = "json"

\* The number of configurations phase 1 returned.
Phase1Count == answers.up[1].count

\* The call supplies a detailed filter or includeDetails.
DetailWanted ==
    \/ Member(ToolArgs, "includeDetails") = JBool(TRUE)
    \/ \E k \in DetailedFilters : ~ArgIsEmpty(k)

\* The requests issued for the detail of configuration i.
DetailCalls(i) ==
    {k \in 1..Len(calls) :
        /\ Len(calls[k].endpoint) >= 2
        /\ calls[k].endpoint[1] = "/buildTypes/id:"
        /\ calls[k].endpoint[2] = ToString(i)}

\* The detail fetch of configuration i failed.
DetailFailed(i) == answers.det[i].kind # "detail"

\* The configurations the report lists.
Reported ==
    IF IsSuccess(reply) /\ ReplyText[1] = "Found "
    THEN {ReplyText[k] : k \in 4..Len(ReplyText)}
    ELSE {}

----------------------------------------------------------------------------
(* Metrics of the client operations.                                       *)

\* The tools behind which a public operation of the client stands.
ClientTools == ToolNames \ {"get_current_time"}

\* The metrics recorded for the TeamCity client while msg was handled.
ClientMetrics == SelectSeq(recorded, LAMBDA r : r.sink = "teamcity")

\* C22: every invocation of a public client operation records exactly one
\* duration metric, keyed by the name of the operation and labelled
\* "success", whatever the outcome: success, upstream error, validation
\* error or arguments that do not decode.
EveryOperationRecordsOneMetric ==
    \A name \in ClientTools :
        ToolDone(name)
            => ClientMetrics = <<RecordTeamCityRequest(name, "success")>>

----------------------------------------------------------------------------
(* Upstream failures.                                                      *)

\* The positions in calls of the requests the operation itself issued
\* through makeRequest (resp. FetchBuildLog's own HTTP call): all of them,
\* except that of a search for build configurations only phase 1.
OperationCalls ==
    IF routed = "tools/call" /\ ToolName = "search_build_configurations"
    THEN 1..(IF Len(calls) > 0 THEN 1 ELSE 0)
    ELSE 1..Len(calls)

\* The upstream answered request k with a failed round trip or a status of
\* 400 or more.
UpstreamFailed(k) == answers.up[k].status = 0 \/ answers.up[k].status >= 400

\* The reply is the tool or resource error that carries the failure of
\* request k.
FailureReturned(k) ==
    /\ ErrorReply(InternalErrorCode)
    /\ "data" \in DOMAIN reply.error
    /\ IF answers.up[k].status = 0
       THEN \E j \in 1..Len(reply.error.data) : reply.error.data[j] = "making request: "
       ELSE \E j \in 1..(Len(reply.error.data) - 1) :
                /\ reply.error.data[j] = "API error "
                /\ reply.error.data[j + 1] = ToString(answers.up[k].status)

\* The configurations of a finished search whose detail could not be
\* fetched.
UnreachableDetails ==
    IF ToolDone("search_build_configurations")
    THEN {i \in 1..Len(answers.det) :
            DetailCalls(i) # {} /\ answers.det[i].kind = "unreachable"}
    ELSE {}

\* No request appears twice among those issued for one message.
NoRequestTwice ==
    \A j, k \in 1..Len(calls) : j # k => calls[j] # calls[k]

----------------------------------------------------------------------------
(* Properties of the transports.                                           *)

\* The Authorization header of the request in progress is "Bearer "
\* followed by the hex HMAC-SHA256 of "teamcity-mcp" under the secret of the
\* server.
ValidAuthorization ==
    conn.request.authorization
        = <<"Bearer ", hexHMAC(server.secret, "teamcity-mcp")>>

\* The request in progress has been answered by the server.
Answered == server.transport = "http" /\ conn.stage = "answered"

\* The request in progress is for /mcp, resp. for one of the health,
\* readiness and metrics endpoints.
ForMCP == conn.request.path = <<"/mcp">>
ForHealth == conn.request.path \in {<<"/health", "z">>, <<"/ready", "z">>, <<"/metrics">>}

NoSecretDisablesAuthentication ==
    /\ Answered
    /\ server.secret = ""
    /\ ForMCP
    /\ conn.request.method = "POST"
    /\ ~conn.request.upgrade
    /\ conn.request.body # NotJSON
    /\ conn.request.authorization = <<>>
    => /\ conn.response.status # 401
       /\ written.transport = "http"

\* C27: every transport writes back exactly what the dispatcher returned
\* for a message: the one reply when there is one, and nothing at all when
\* there is none.
TransportsWriteBackTheReply ==
    written.transport # "none"
        => written.out = IF written.reply = NoReply
                         THEN <<>>
                         ELSE <<Marshal(written.reply)>>

\* Shutdown of the stdio transport has been requested: the context of the
\* server is cancelled, or stdin is closed.
ShutdownRequested == server.transport = "stdio" /\ (server.cancelled \/ stdio.closed)

\* C29: once the context is cancelled or stdin is closed, startSTDIO
\* eventually returns, with no further input and whatever was read before;
\* and a message waiting on stdin is eventually read (or the loop has
\* returned), also after a malformed one.
StdioLoopTerminates ==
    /\ ShutdownRequested ~> server.returned
    /\ (server.transport = "stdio" /\ stdio.in # <<>>)
          ~> (stdio.in = <<>> \/ server.returned)

----------------------------------------------------------------------------
(* The catalogs.                                                           *)

\* HandleRequest has returned from a tools/list.
ToolsListDone == Done /\ routed = "tools/list"

\* C26: tools/list returns the same static catalog on every call, whatever
\* the id and params of the call and whatever was handled before, and makes
\* no upstream call; the catalog holds trigger_build with buildTypeId
\* required.
ToolsListIsStatic ==
    ToolsListDone
        => /\ IsSuccess(reply) /\ ~IsError(reply)
           /\ reply.result.tools = ToolCatalog
           /\ calls = <<>>
           /\ \E i \in 1..Len(reply.result.tools) :
                 /\ reply.result.tools[i].name = "trigger_build"
                 /\ "buildTypeId" \in reply.result.tools[i].required

\* C26: a tools/list carrying params and a string id has been answered.
ToolsListIsStaticWitness ==
    /\ ToolsListDone
    /\ Member(msg, "id") = JStr("req-7")
    /\ Member(msg, "params") = EmptyObject
    /\ IsSuccess(reply)

----------------------------------------------------------------------------
(* The build lookup before a mutation.                                    *)

\* The tools that change a build.
BuildMutators == {"cancel_build", "pin_build", "set_build_tag"}

\* Request k of the call changes something upstream.
Mutating(k) == calls[k].method \in {"POST", "PUT", "DELETE"}

\* The first request of the call was GET /builds/id:{id}, the upstream
\* answered it with a status below 400 and the body parsed as a build.
LookupSucceeded ==
    /\ Len(calls) >= 1
    /\ calls[1].method = "GET"
    /\ Len(calls[1].endpoint) = 2
    /\ calls[1].endpoint[1] = "/builds/id:"
    /\ answers.up[1].status \in 1..399
    /\ answers.up[1].body = "json"

\* The path of request k is the path of the lookup followed by `tail`.
UnderLookedUpBuild(k, tail) == calls[k].endpoint = calls[1].endpoint \o <<tail>>

\* C28: cancel_build, pin_build and set_build_tag issue no mutating request
\* unless the lookup GET /builds/id:{id} was answered successfully and
\* parsed first; after a successful lookup cancel_build issues exactly one
\* POST cancelRequest and pin_build exactly one request, a PUT when pin is
\* true and a DELETE when it is false.
MutationOnlyAfterLookup ==
    \A name \in BuildMutators :
        ToolDone(name) =>
            /\ \A k \in 1..Len(calls) : Mutating(k) => k > 1 /\ LookupSucceeded
            /\ (name = "cancel_build" /\ LookupSucceeded)
                  => /\ Len(calls) = 2
                     /\ calls[2].method = "POST"
                     /\ UnderLookedUpBuild(2, "/cancelRequest")
            /\ (name = "pin_build" /\ LookupSucceeded)
                  => /\ Len(calls) = 2
                     /\ UnderLookedUpBuild(2, "/pin")
                     /\ calls[2].method =
                           IF Member(ToolArgs, "pin") = JBool(TRUE)
                           THEN "PUT" ELSE "DELETE"

\* pin_build with pin false has found its build and sent the one DELETE.
MutationOnlyAfterLookupWitness ==
    /\ ToolDone("pin_build")
    /\ Member(ToolArgs, "pin") = JBool(FALSE)
    /\ LookupSucceeded
    /\ Len(calls) = 2
    /\ calls[2].method = "DELETE"
    /\ IsSuccess(reply)

----------------------------------------------------------------------------
(* The catalogs against the dispatch tables.                              *)

\* The names tools/list advertises and the URIs resources/list advertises
\* for an empty uri.
ListedTools == {ToolCatalog[i].name : i \in 1..Len(ToolCatalog)}
ListedURIs == {ResourceCatalog[i].uri[1] : i \in 1..Len(ResourceCatalog)}

\* The reply is an error whose data starts with `text`.
RefusedAs(text) ==
    /\ IsError(reply)
    /\ "data" \in DOMAIN reply.error
    /\ reply.error.data # NoData
    /\ reply.error.data[1] = text

\* HandleRequest has returned from a tools/call whose params decoded.
ToolCalled ==
    /\ Done /\ routed = "tools/call"
    /\ ~StructErr(Member(msg, "params"))
    /\ ~StringFieldErr(Member(Member(msg, "params"), "name"))

\* HandleRequest has returned from a resources/list.
ResourcesListed == Done /\ routed = "resources/list"

\* C30: the catalogs and the dispatch tables agree.  tools/list replies with
\* the listed tools; a tools/call is answered "unknown tool" exactly when its
\* name is not listed; resources/list with an empty uri replies with the
\* listed URIs, and resources/list with a listed uri is never answered
\* "unsupported resource URI".
CatalogsMatchDispatch ==
    /\ ToolsListDone
          => {reply.result.tools[i].name : i \in 1..Len(reply.result.tools)}
                = ListedTools
    /\ ToolCalled => (RefusedAs("unknown tool: ") <=> ToolName \notin ListedTools)
    /\ (ResourcesListed /\ RequestedUri = "" /\ IsSuccess(reply))
          => {reply.result.resources[i].uri[1] :
                 i \in 1..Len(reply.result.resources)} = ListedURIs
    /\ (ResourcesListed /\ RequestedUri \in ListedURIs)
          => ~RefusedAs("unsupported resource URI: ")

\* The last tool of the catalog has been called and has answered.
CatalogsMatchDispatchWitness ==
    /\ ToolCalled
    /\ ToolName = "get_current_time"
    /\ ToolName \in ListedTools
    /\ IsSuccess(reply)

============================================================================
